---- MODULE Spec2Model ----
(***************************************************************************)
(* Model of the MCP WebSocket server of the VS Code extension              *)
(* (src/client-examples/node-client.js, the extension part, lines 409-949) *)
(* Two groups of operations are modelled:                                  *)
(*   - the registry: activate, startServer/stopServer, verifyClient, the   *)
(*     'connection' and 'close' handlers and the client counter;           *)
(*   - the protocol: the 'message' handler with every action branch, each  *)
(*     await being a suspension point, sendResponse and sendError.         *)
(***************************************************************************)
EXTENDS Integers, Sequences, FiniteSets, TLC

VARIABLES
  authEnabled,   \* config 'auth.enabled', read by activate and startServer
  authToken,     \* module variable authToken: None or Some(token)
  wss,           \* module variable wss: TRUE iff a server object is held
  clientCount,   \* module variable clientCount
  socks,         \* the client sockets that are open
  nextSock,      \* number of sockets accepted so far
  lastAttempt,   \* outcome of the latest connection attempt
  workload,      \* the messages the clients of this run send
  reqs,          \* the messages received so far, each with its handler's state
  sent,          \* the messages handed to socket.send, in order
  fs,            \* the file system: path -> None or Some(content)
  docs,          \* the loaded text documents: path -> None or Some(lines)
  visible,       \* the paths shown in a text editor
  active,        \* vscode.window.activeTextEditor: None or Some(path)
  sel,           \* the selection of each path's editor
  insLog,        \* per path, the request behind each insertion, in order
  sendFails,     \* TRUE while socket.send throws
  inbox,         \* the messages that arrived and are not yet emitted, in order
  started,       \* per handler invocation, the socket and arrival number of its message
  log,           \* the lines written to the console, in order
  twin,          \* a second run of the registry that differs in the secret only
  obsWebSocket,  \* the OBS bridge's socket: 0 for undefined, else its number
  obsConnected,  \* the OBS bridge's module variable obsConnected
  obsSocks,      \* the sockets the OBS bridge created, each with its attempt
  obsCmds,       \* the commands sent to OBS, each with its listener and timer
  obsCalls,      \* number of requests the OBS bridge received so far
  obsOut         \* the messages the OBS bridge handed to socket.send, in order

regVars == <<authEnabled, authToken, wss, clientCount, socks, nextSock, lastAttempt>>
surfVars == <<fs, docs, visible, active, sel>>
msgVars == <<workload, reqs, sent>>
netVars == <<inbox, started>>
logVars == <<log, twin>>
obsVars == <<obsWebSocket, obsConnected, obsSocks, obsCmds, obsCalls, obsOut>>
envVars == <<sendFails, netVars, logVars, obsVars>>
\* what no branch of the 'message' handler touches, the socket set apart
srvVars == <<authEnabled, authToken, wss, clientCount, nextSock, lastAttempt>>
vars == <<regVars, msgVars, surfVars, insLog, envVars>>

(***************************************************************************)
(* Bounds                                                                  *)
(***************************************************************************)
MaxSocks == 2
MaxReqs == 2
\* type requests received in a run of the typing engine on its own
MaxJobs == 1
\* console lines after which a run is cut off
MaxLog == 5

(***************************************************************************)
(* JavaScript values                                                       *)
(***************************************************************************)
\* an optional value: None is null/undefined, Some(v) a present value
None == <<>>
Some(v) == <<v>>

\* a string as the sequence of its characters
BEARER == <<"B", "e", "a", "r", "e", "r", " ">>

\* does pat occur in s at index i (1-based)
OccursAt(s, pat, i) ==
  /\ i >= 1
  /\ i + Len(pat) - 1 <= Len(s)
  /\ \A k \in 1..Len(pat) : s[i + k - 1] = pat[k]

\* String.prototype.replace(pat, '') with a string pattern: the first
\* occurrence of pat is removed, the rest of the string is kept
ReplaceFirstWrong(s, pat) ==
  IF OccursAt(s, pat, 1) THEN SubSeq(s, Len(pat) + 1, Len(s)) ELSE s

ReplaceFirst(s, pat) ==
  IF \E i \in 1..Len(s) : OccursAt(s, pat, i)
  THEN LET i == CHOOSE j \in 1..Len(s) :
                  /\ OccursAt(s, pat, j)
                  /\ \A m \in 1..(j - 1) : ~OccursAt(s, pat, m)
       IN SubSeq(s, 1, i - 1) \o SubSeq(s, i + Len(pat), Len(s))
  ELSE s

(***************************************************************************)
(* Inputs of the registry                                                  *)
(***************************************************************************)
\* fragments tokens are built from
Frags == {<<>>, <<"s">>, <<"t">>, <<"s", "t">>}

\* tokens an operator configures ('' is the unset default) or that
\* generateSecureToken returns
ConfigTokens == {<<>>, <<"s">>, <<"s", "t">>}
GeneratedTokens == {<<"s">>, <<"t">>}

\* the token query parameter of the request URL: absent or a string
UrlTokens == {None} \cup {Some(f) : f \in Frags}

\* the authorization header: absent or a string
HeaderValues ==
  {None} \cup {Some(pre \o mid \o post) :
                 pre \in {<<>>, <<"s">>}, mid \in {<<>>, BEARER}, post \in Frags}

(***************************************************************************)
(* activate: authentication settings                                       *)
(***************************************************************************)
\* authToken after activate, gen being the value generateSecureToken returns
ActivateToken(enabled, configToken, generateRandomToken, gen) ==
  IF enabled
  THEN IF configToken # <<>> THEN Some(configToken)
       ELSE IF generateRandomToken THEN Some(gen)
       ELSE None
  ELSE None

(***************************************************************************)
(* startServer: verifyClient                                               *)
(***************************************************************************)
NoTokenMessageSame == "Invalid authentication token"
NoTokenMessage == "Authentication token not configured on server"
InvalidTokenMessage == "Invalid authentication token"

\* headerToken = authHeader ? authHeader.replace('Bearer ', '') : null
HeaderToken(header) ==
  IF header # None /\ header[1] # <<>>
  THEN Some(ReplaceFirst(header[1], BEARER))
  ELSE None

\* (clientToken && clientToken === authToken) || (headerToken && headerToken === authToken)
TokenMatches(url, header, token) ==
  \/ url # None /\ url[1] # <<>> /\ url = token
  \/ HeaderToken(header) # None /\ HeaderToken(header)[1] # <<>>
       /\ HeaderToken(header) = token

\* the callback verifyClient makes: [accept, code, message]
VerifyClientAlways(enabled, token, url, header) ==
  IF token = None \/ token[1] = <<>>
  THEN [accept |-> FALSE, code |-> 401, message |-> NoTokenMessage]
  ELSE IF TokenMatches(url, header, token)
  THEN [accept |-> TRUE, code |-> 0, message |-> ""]
  ELSE [accept |-> FALSE, code |-> 401, message |-> InvalidTokenMessage]

VerifyClient(enabled, token, url, header) ==
  IF ~enabled
  THEN [accept |-> TRUE, code |-> 0, message |-> ""]   \* no verifyClient option
  ELSE IF token = None \/ token[1] = <<>>
  THEN [accept |-> FALSE, code |-> 401, message |-> NoTokenMessage]
  ELSE IF TokenMatches(url, header, token)
  THEN [accept |-> TRUE, code |-> 0, message |-> ""]
  ELSE [accept |-> FALSE, code |-> 401, message |-> InvalidTokenMessage]

(***************************************************************************)
(* JSON values of the wire protocol                                        *)
(***************************************************************************)
JUndef == [undef |-> TRUE]          \* the field is absent
JNull == [null |-> TRUE]
JNum(n) == [num |-> n]
JStr(s) == [str |-> s]               \* a string compared as a whole
JTxt(cs) == [txt |-> cs]             \* a string as the sequence of its characters
JBool(b) == [bool |-> b]
JObj(o) == [obj |-> o]

IsNum(v) == DOMAIN v = {"num"}
IsStr(v) == DOMAIN v = {"str"}
IsTxt(v) == DOMAIN v = {"txt"}
IsObj(v) == DOMAIN v = {"obj"}

\* JavaScript truthiness
TruthyWhenPresent(v) ==
  CASE DOMAIN v = {"undef"} -> FALSE
    [] DOMAIN v = {"null"} -> FALSE
    [] DOMAIN v = {"num"} -> v.num # 0
    [] DOMAIN v = {"str"} -> TRUE
    [] DOMAIN v = {"txt"} -> TRUE
    [] DOMAIN v = {"bool"} -> v.bool
    [] OTHER -> TRUE

Truthy(v) ==
  CASE DOMAIN v = {"undef"} -> FALSE
    [] DOMAIN v = {"null"} -> FALSE
    [] DOMAIN v = {"num"} -> v.num # 0
    [] DOMAIN v = {"str"} -> v.str # ""
    [] DOMAIN v = {"txt"} -> v.txt # <<>>
    [] DOMAIN v = {"bool"} -> v.bool
    [] OTHER -> TRUE

\* a || b
OrElseFirst(a, b) == a
OrElse(a, b) == IF Truthy(a) THEN a ELSE b

\* v != null
NotNullish(v) == DOMAIN v # {"undef"} /\ DOMAIN v # {"null"}

(***************************************************************************)
(* The document surface                                                    *)
(***************************************************************************)
Paths == {"/a", "/n"}

Pos(l, c) == [line |-> l, character |-> c]
Selection(anchor, act) == [anchor |-> anchor, active |-> act]

PosLE(a, b) == a.line < b.line \/ (a.line = b.line /\ a.character <= b.character)
SelStart(x) == IF PosLE(x.anchor, x.active) THEN x.anchor ELSE x.active
SelEnd(x) == IF PosLE(x.anchor, x.active) THEN x.active ELSE x.anchor
SelIsEmpty(x) == x.anchor = x.active

\* file content (a sequence of characters) as the lines of a document
RECURSIVE SplitLines(_)
SplitLines(cs) ==
  IF \A i \in 1..Len(cs) : cs[i] # "\n" THEN <<cs>>
  ELSE LET i == CHOOSE j \in 1..Len(cs) :
                  cs[j] = "\n" /\ \A m \in 1..(j - 1) : cs[m] # "\n"
       IN <<SubSeq(cs, 1, i - 1)>> \o SplitLines(SubSeq(cs, i + 1, Len(cs)))

\* the lines of a document as file content
RECURSIVE JoinLines(_)
JoinLines(ls) ==
  IF Len(ls) = 1 THEN ls[1]
  ELSE ls[1] \o <<"\n">> \o JoinLines(Tail(ls))

\* document.lineCount and document.lineAt(l).text.length
LineCount(d) == Len(d)
LineLength(d, l) == Len(d[l + 1])

\* the text txt (no line break in it) inserted at position p
InsertAtLineStart(d, p, txt) ==
  [d EXCEPT ![p.line + 1] = txt \o @]

InsertAt(d, p, txt) ==
  [d EXCEPT ![p.line + 1] =
     SubSeq(@, 1, p.character) \o txt \o SubSeq(@, p.character + 1, Len(@))]

\* the range from a to b (a before b) deleted
DeleteRange(d, a, b) ==
  SubSeq(d, 1, a.line)
    \o <<SubSeq(d[a.line + 1], 1, a.character)
           \o SubSeq(d[b.line + 1], b.character + 1, Len(d[b.line + 1]))>>
    \o SubSeq(d, b.line + 2, Len(d))

\* no request in flight, nothing sent, one file on disk, no editor open
NoSelection == Selection(Pos(0, 0), Pos(0, 0))

IdleSurface ==
  /\ fs = [p \in Paths |-> IF p = "/a" THEN Some(<<"x", "y">>) ELSE None]
  /\ docs = [p \in Paths |-> None]
  /\ visible = {}
  /\ active = None
  /\ sel = [p \in Paths |-> NoSelection]

\* the second run before activate
NoTwin ==
  [authToken |-> <<>>,   \* its module variable authToken
   clientCount |-> 0,    \* its module variable clientCount
   socks |-> {},         \* its open client sockets
   nextSock |-> 0,       \* number of sockets it accepted so far
   log |-> <<>>,         \* the lines it wrote to the console
   agree |-> TRUE]       \* both runs accepted the same connection attempts

\* the OBS bridge as its module is loaded: no socket, not connected
IdleObs ==
  /\ obsWebSocket = 0
  /\ obsConnected = FALSE
  /\ obsSocks = <<>>
  /\ obsCmds = <<>>
  /\ obsCalls = 0
  /\ obsOut = <<>>

\* socket.send works, nothing is on the wire, nothing is logged
IdleEnv ==
  /\ IdleObs
  /\ sendFails = FALSE
  /\ inbox = <<>>
  /\ started = <<>>
  /\ log = <<>>
  /\ twin = NoTwin

IdleProtocol ==
  /\ IdleEnv
  /\ workload = {}
  /\ reqs = <<>>
  /\ sent = <<>>
  /\ IdleSurface
  /\ insLog = [p \in Paths |-> <<>>]

(***************************************************************************)
(* Registry: initial state and operations                                  *)
(***************************************************************************)
NoAttempt ==
  [made |-> FALSE, url |-> None, header |-> None, accept |-> FALSE,
   code |-> 0, message |-> "", handled |-> FALSE]

\* state after activate with autoStart off
InitReg ==
  /\ authEnabled \in BOOLEAN
  /\ \E ct \in ConfigTokens, g \in BOOLEAN, gen \in GeneratedTokens :
       authToken = ActivateToken(authEnabled, ct, g, gen)
  /\ wss = FALSE
  /\ clientCount = 0
  /\ socks = {}
  /\ nextSock = 0
  /\ lastAttempt = NoAttempt
  /\ IdleProtocol

\* toggle command with no server running: startServer
StartServer ==
  /\ ~wss
  /\ wss' = TRUE
  /\ clientCount' = 0
  /\ UNCHANGED <<authEnabled, authToken, socks, nextSock, lastAttempt>>
  /\ UNCHANGED <<msgVars, surfVars, insLog, envVars>>

\* toggle command with a server running: stopServer.  wss.close() stops
\* listening; the sockets already accepted stay open until they close
StopServer ==
  /\ wss
  /\ wss' = FALSE
  /\ clientCount' = 0
  /\ UNCHANGED <<authEnabled, authToken, socks, nextSock, lastAttempt>>
  /\ UNCHANGED <<msgVars, surfVars, insLog, envVars>>

\* a client attempts a connection: verifyClient, then on acceptance the
\* 'connection' handler
ConnectAttempt(url, header) ==
  /\ wss
  /\ nextSock < MaxSocks
  /\ LET v == VerifyClient(authEnabled, authToken, url, header) IN
       /\ lastAttempt' = [made |-> TRUE, url |-> url, header |-> header,
                          accept |-> v.accept, code |-> v.code,
                          message |-> v.message, handled |-> v.accept]
       /\ IF v.accept
          THEN /\ clientCount' = clientCount + 1
               /\ nextSock' = nextSock + 1
               /\ socks' = socks \cup {nextSock + 1}
          ELSE UNCHANGED <<clientCount, nextSock, socks>>
  /\ UNCHANGED <<authEnabled, authToken, wss>>
  /\ UNCHANGED <<msgVars, surfVars, insLog, envVars>>

\* socket.on('close')
SocketClose(s) ==
  /\ s \in socks
  /\ socks' = socks \ {s}
  /\ clientCount' = clientCount - 1
  /\ UNCHANGED <<authEnabled, authToken, wss, nextSock, lastAttempt>>
  /\ UNCHANGED <<msgVars, surfVars, insLog, envVars>>

NextReg ==
  \/ StartServer
  \/ StopServer
  \/ \E url \in UrlTokens, header \in HeaderValues : ConnectAttempt(url, header)
  \/ \E s \in socks : SocketClose(s)

SpecReg == InitReg /\ [][NextReg]_vars

(***************************************************************************)
(* The console output of the registry, for two runs side by side           *)
(***************************************************************************)
\* const portNum = config.get<number>('port') ?? 3000
portNum == 3000

\* what activate logs about the token
ActivateLogShown(enabled, configToken, generateRandomToken) ==
  IF enabled /\ configToken # <<>>
  THEN <<(<<"MCP server using configured authentication token">> \o configToken)>>
  ELSE <<>>

ActivateLog(enabled, configToken, generateRandomToken) ==
  IF enabled
  THEN IF configToken # <<>>
       THEN <<(<<"MCP server using configured authentication token (token value hidden)">>)>>
       ELSE IF generateRandomToken
       THEN <<(<<"MCP server generated random authentication token (token value hidden)">>)>>
       ELSE <<>>
  ELSE <<>>

\* what startServer logs once the server listens
StartLog == <<(<<"MCP WebSocket server listening on port ", portNum>>)>>

\* what verifyClient logs for an attempt
VerifyLog(enabled, token, url, header) ==
  IF ~enabled THEN <<>>
  ELSE IF token = None \/ token[1] = <<>>
  THEN <<(<<"MCP server rejecting connection: auth enabled but no token configured">>)>>
  ELSE IF TokenMatches(url, header, token)
  THEN <<(<<"MCP server accepted authenticated connection (token validated)">>)>>
  ELSE <<(<<"MCP server rejected connection: invalid token">>)>>

\* what the 'connection' handler logs, count being clientCount after clientCount++
ConnectionLog(enabled, count) ==
  IF enabled
  THEN <<(<<"Authenticated client connected to MCP server. Total clients:", count>>)>>
  ELSE <<(<<"Client connected to MCP server. Total clients:", count>>)>>

\* what the 'close' handler logs, count being clientCount after clientCount--
CloseLog(count) == <<(<<"Client disconnected. Total clients:", count>>)>>

\* everything one attempt logs
AttemptLog(enabled, token, url, header, count) ==
  VerifyLog(enabled, token, url, header)
    \o (IF VerifyClient(enabled, token, url, header).accept
        THEN ConnectionLog(enabled, count + 1) ELSE <<>>)

\* the authorization headers the clients of these runs present
LogHeaders == {None, Some(BEARER \o <<"s">>)}

\* neither run has written more than MaxLog lines
LogOpen == Len(log) < MaxLog /\ Len(twin.log) < MaxLog

\* both runs after activate (autoStart off): the same configuration but
\* for the value of the secret
InitLog ==
  /\ authEnabled \in BOOLEAN
  /\ \E ct \in ConfigTokens, ct2 \in ConfigTokens, g \in BOOLEAN,
        gen \in GeneratedTokens, gen2 \in GeneratedTokens :
       /\ (ct = <<>>) <=> (ct2 = <<>>)
       /\ authToken = ActivateToken(authEnabled, ct, g, gen)
       /\ log = ActivateLog(authEnabled, ct, g)
       /\ twin = [NoTwin EXCEPT !.authToken = ActivateToken(authEnabled, ct2, g, gen2),
                                !.log = ActivateLog(authEnabled, ct2, g)]
  /\ wss = FALSE
  /\ clientCount = 0
  /\ socks = {}
  /\ nextSock = 0
  /\ lastAttempt = NoAttempt
  /\ IdleObs
  /\ sendFails = FALSE
  /\ inbox = <<>>
  /\ started = <<>>
  /\ workload = {}
  /\ reqs = <<>>
  /\ sent = <<>>
  /\ IdleSurface
  /\ insLog = [p \in Paths |-> <<>>]

\* the toggle command starts the server in both runs
TwinStart ==
  /\ ~wss
  /\ LogOpen
  /\ wss' = TRUE
  /\ clientCount' = 0
  /\ log' = log \o StartLog
  /\ twin' = [twin EXCEPT !.clientCount = 0, !.log = @ \o StartLog]
  /\ UNCHANGED <<authEnabled, authToken, socks, nextSock, lastAttempt>>
  /\ UNCHANGED <<msgVars, surfVars, insLog, sendFails, netVars, obsVars>>

\* the toggle command stops the server in both runs: stopServer logs nothing
TwinStop ==
  /\ wss
  /\ wss' = FALSE
  /\ clientCount' = 0
  /\ twin' = [twin EXCEPT !.clientCount = 0]
  /\ UNCHANGED <<authEnabled, authToken, socks, nextSock, lastAttempt, log>>
  /\ UNCHANGED <<msgVars, surfVars, insLog, sendFails, netVars, obsVars>>

\* a client attempts a connection in both runs, presenting url and header
\* in the one and url2 and header2 in the other
TwinAttempt(url, header, url2, header2) ==
  /\ wss
  /\ LogOpen
  /\ nextSock < MaxSocks
  /\ twin.nextSock < MaxSocks
  /\ LET v == VerifyClient(authEnabled, authToken, url, header)
         v2 == VerifyClient(authEnabled, twin.authToken, url2, header2)
     IN
     /\ lastAttempt' = [made |-> TRUE, url |-> url, header |-> header,
                        accept |-> v.accept, code |-> v.code,
                        message |-> v.message, handled |-> v.accept]
     /\ IF v.accept
        THEN /\ clientCount' = clientCount + 1
             /\ nextSock' = nextSock + 1
             /\ socks' = socks \cup {nextSock + 1}
        ELSE UNCHANGED <<clientCount, nextSock, socks>>
     /\ log' = log \o AttemptLog(authEnabled, authToken, url, header, clientCount)
     /\ twin' = [twin EXCEPT
          !.clientCount = IF v2.accept THEN @ + 1 ELSE @,
          !.nextSock = IF v2.accept THEN @ + 1 ELSE @,
          !.socks = IF v2.accept THEN @ \cup {twin.nextSock + 1} ELSE @,
          !.log = @ \o AttemptLog(authEnabled, twin.authToken, url2, header2,
                                  twin.clientCount),
          !.agree = @ /\ (v.accept = v2.accept)]
  /\ UNCHANGED <<authEnabled, authToken, wss>>
  /\ UNCHANGED <<msgVars, surfVars, insLog, sendFails, netVars, obsVars>>

\* the socket s closes in both runs
TwinClose(s) ==
  /\ s \in socks
  /\ s \in twin.socks
  /\ LogOpen
  /\ socks' = socks \ {s}
  /\ clientCount' = clientCount - 1
  /\ log' = log \o CloseLog(clientCount - 1)
  /\ twin' = [twin EXCEPT !.socks = @ \ {s},
                          !.clientCount = @ - 1,
                          !.log = @ \o CloseLog(twin.clientCount - 1)]
  /\ UNCHANGED <<authEnabled, authToken, wss, nextSock, lastAttempt>>
  /\ UNCHANGED <<msgVars, surfVars, insLog, sendFails, netVars, obsVars>>

NextLog ==
  \/ TwinStart
  \/ TwinStop
  \/ \E url \in UrlTokens, header \in LogHeaders,
        url2 \in UrlTokens, header2 \in LogHeaders :
       TwinAttempt(url, header, url2, header2)
  \/ \E s \in socks : TwinClose(s)

SpecLog == InitLog /\ [][NextLog]_vars

(***************************************************************************)
(* Messages                                                                *)
(***************************************************************************)
\* a payload JSON.parse rejects, and a payload it parses to the value v
BadSyntax == [syntax |-> FALSE]
Parsed(v) == [json |-> v]
IsParsed(m) == DOMAIN m = {"json"}

\* v.f for a value v that is neither null nor undefined
Field(v, f) == IF IsObj(v) THEN v.obj[f] ELSE JUndef

NoParams ==
  [path |-> JUndef, content |-> JUndef, command |-> JUndef, args |-> JUndef,
   text |-> JUndef, position |-> JUndef, selection |-> JUndef,
   mode |-> JUndef, quick |-> JUndef, afterCursor |-> JUndef,
   speed |-> JUndef, variation |-> JUndef, duration |-> JUndef]

Request(id, action, method, params) ==
  Parsed(JObj([id |-> id, action |-> action, method |-> method,
               params |-> params]))

\* const id = msg.id || null
IdOf(v) == OrElse(Field(v, "id"), JNull)
\* const action = msg.action || msg.method
ActionOfDefault(v) ==
  OrElse(OrElse(Field(v, "action"), Field(v, "method")), JStr("getFileContent"))
ActionOf(v) == OrElse(Field(v, "action"), Field(v, "method"))
\* const params = msg.params || {}
ParamsOf(v) == OrElse(Field(v, "params"), JObj(NoParams))
Param(v, f) == Field(ParamsOf(v), f)

(***************************************************************************)
(* sendResponse, sendError and the reply to a payload that does not parse  *)
(***************************************************************************)
\* the messages sent on behalf of request r
SentFor(out, r) == SelectSeq(out, LAMBDA x : x.req = r)

\* an outbound message: JSON.stringify leaves out a field that is undefined
Message(s, r, id, result, error) ==
  [sock |-> s, req |-> r, id |-> id, result |-> result, error |-> error]

\* try { socket.send(JSON.stringify(resp)) } catch (err) { console.error(...) }
Send(out, x) == IF sendFails THEN out ELSE Append(out, x)

sendResponseTwice(out, s, r, id, result) ==
  IF ~NotNullish(id) THEN out
  ELSE out \o <<Message(s, r, Some(id), Some(result), None),
                Message(s, r, Some(id), Some(result), None)>>

sendResponse(out, s, r, id, result) ==
  IF ~NotNullish(id) THEN out
  ELSE Send(out, Message(s, r, Some(id), Some(result), None))

sendError(out, s, r, id, errorMsg) ==
  Send(out, Message(s, r, Some(id), None, Some(errorMsg)))

\* socket.send(JSON.stringify({ error: "Invalid JSON message" }))
InvalidJsonText == "Invalid JSON message"
sendInvalidJsonNone(out, s, r) == out
sendInvalidJson(out, s, r) ==
  Send(out, Message(s, r, None, None, Some(<<InvalidJsonText>>)))

(***************************************************************************)
(* The state of one 'message' handler invocation                           *)
(***************************************************************************)
Ok(v) == [ok |-> TRUE, val |-> v]
Failed == [ok |-> FALSE, val |-> JUndef]

\* the invocation for message m received on socket s
NewReq(s, m) ==
  [sock |-> s,
   msg |-> m,
   pc |-> "done",        \* the await the handler is suspended at, or "done"
   handler |-> "none",   \* the action branch that was entered
   calls |-> 0,          \* calls made to the document surface
   res |-> Ok(JUndef),   \* outcome of the call the handler awaits
   ed |-> None,          \* const editor = vscode.window.activeTextEditor
   k |-> 0,              \* characters typed so far
   thrown |-> FALSE,     \* an exception reached the outer catch
   delay |-> 0,          \* milliseconds of the pacing timer awaited
   waited |-> 0,         \* milliseconds spent in the pacing timers that fired
   lost |-> FALSE]       \* a character was typed while ed was not the active editor

Put(r, q) == IF r = Len(reqs) + 1 THEN Append(reqs, q) ELSE [reqs EXCEPT ![r] = q]

IdQ(q) == IdOf(q.msg.json)
ParamQ(q, f) == Param(q.msg.json, f)

\* the handler returns after sending what turns sent into out; no branch
\* calls socket.close() or socket.terminate()
FinishClosing(r, q, out) ==
  /\ reqs' = Put(r, [q EXCEPT !.pc = "done"])
  /\ sent' = out
  /\ socks' = (IF q.thrown \/ ~q.res.ok THEN socks \ {q.sock} ELSE socks)

Finish(r, q, out) ==
  /\ reqs' = Put(r, [q EXCEPT !.pc = "done"])
  /\ sent' = out
  /\ socks' = socks

\* the handler returns with an error response
FinishError(r, q, errorMsg) ==
  Finish(r, q, sendError(sent, q.sock, r, IdQ(q), errorMsg))

\* the handler returns with a success response
FinishResponse(r, q, result) ==
  Finish(r, q, sendResponse(sent, q.sock, r, IdQ(q), result))

\* an exception that is not a SyntaxError reaches the outer catch
FinishThrown(r, q) ==
  Finish(r, [q EXCEPT !.thrown = TRUE], sent)

\* the handler calls the surface, which answers res, and awaits at pc
Await(r, q, pc, res) ==
  /\ reqs' = Put(r, [q EXCEPT !.pc = pc, !.res = res, !.calls = @ + 1])
  /\ UNCHANGED <<sent, socks>>

(***************************************************************************)
(* Calls to the document surface: their effect on the surface              *)
(***************************************************************************)
LoneSurrogate == "\\uD800"
ReplacementChar == "\\uFFFD"

\* Buffer.from(text, 'utf8') followed by Buffer.toString('utf-8'): a
\* surrogate without its pair is stored as the replacement character
Utf8RoundTrip(cs) ==
  [i \in 1..Len(cs) |-> IF cs[i] = LoneSurrogate THEN ReplacementChar ELSE cs[i]]

\* the text document of path p is loaded (from the file when not yet loaded)
LoadDoc(p) ==
  docs' = [docs EXCEPT ![p] = IF @ = None THEN Some(SplitLines(fs[p][1])) ELSE @]

\* an editor of path p is shown and becomes the active editor
ShowEditor(p) ==
  /\ visible' = visible \cup {p}
  /\ active' = Some(p)

\* the editor of path p is closed; another visible editor becomes active
CloseEditor(p) ==
  /\ visible' = visible \ {p}
  /\ active' = IF active # Some(p) THEN active
               ELSE IF visible \ {p} = {} THEN None
               ELSE Some(CHOOSE o \in visible \ {p} : TRUE)

\* the surface validates a position against document d
ValidPos(d, p) ==
  LET l == IF p.line > LineCount(d) - 1 THEN LineCount(d) - 1 ELSE p.line
      c == IF p.character > LineLength(d, l) THEN LineLength(d, l) ELSE p.character
  IN Pos(l, c)

\* editor.selection = x, for the editor of path p showing document d
SetSelectionRaw(selNow, p, d, x) ==
  [selNow EXCEPT ![p] = x]

SetSelection(selNow, p, d, x) ==
  [selNow EXCEPT ![p] = Selection(ValidPos(d, x.anchor), ValidPos(d, x.active))]

\* the end of the last line of document d
EndPosFirstLine(d) == Pos(0, LineLength(d, 0))

EndPos(d) == Pos(LineCount(d) - 1, LineLength(d, LineCount(d) - 1))

\* typing text txt into a document d whose selection is x: the selection is
\* replaced by txt and the cursor stands after it
TypedDoc(d, x, txt) ==
  InsertAt(IF SelIsEmpty(x) THEN d ELSE DeleteRange(d, SelStart(x), SelEnd(x)),
           SelStart(x), txt)
TypedSel(x, txt) ==
  LET p == Pos(SelStart(x).line, SelStart(x).character + Len(txt))
  IN Selection(p, p)

\* editBuilder.insert(x.active, txt): txt is inserted at the active end of
\* the selection x; a cursor at that place moves behind the inserted text
InsertedSel(x, txt) ==
  LET shift(p) == IF p.line = x.active.line /\ p.character >= x.active.character
                  THEN Pos(p.line, p.character + Len(txt)) ELSE p
  IN Selection(IF SelIsEmpty(x) THEN shift(x.anchor)
               ELSE IF PosLE(x.active, x.anchor) /\ x.active # x.anchor
                    THEN shift(x.anchor) ELSE x.anchor,
               shift(x.active))

(***************************************************************************)
(* openFile                                                                *)
(***************************************************************************)
PathOf(q) == ParamQ(q, "path").str

OpenFileStart(r, q0) ==
  LET q == [q0 EXCEPT !.handler = "openFile"] IN
  IF ~Truthy(ParamQ(q, "path"))
  THEN /\ FinishError(r, q, <<"Missing \"path\" parameter">>)
       /\ UNCHANGED <<surfVars, insLog>>
  ELSE \* await vscode.workspace.openTextDocument(fileUri)
       IF fs[PathOf(q)] # None
       THEN /\ Await(r, q, "open_doc", Ok(JUndef))
            /\ LoadDoc(PathOf(q))
            /\ UNCHANGED <<fs, visible, active, sel, insLog>>
       ELSE /\ Await(r, q, "open_doc", Failed)
            /\ UNCHANGED <<surfVars, insLog>>

OpenDocDone(r) ==
  LET q == reqs[r] IN
  /\ q.pc = "open_doc"
  /\ IF q.res.ok
     THEN \* await vscode.window.showTextDocument(doc)
          /\ Await(r, q, "open_show", Ok(JUndef))
          /\ ShowEditor(PathOf(q))
          /\ UNCHANGED <<fs, docs, sel, insLog>>
     ELSE /\ FinishError(r, q, <<"Could not open file (not found or inaccessible): ", PathOf(q)>>)
          /\ UNCHANGED <<surfVars, insLog>>
  /\ UNCHANGED <<srvVars, workload, envVars>>

OpenShowDone(r) ==
  LET q == reqs[r] IN
  /\ q.pc = "open_show"
  /\ FinishResponse(r, q, <<"Opened file: ", PathOf(q)>>)
  /\ UNCHANGED <<srvVars, workload, envVars, surfVars, insLog>>

(***************************************************************************)
(* createFile                                                              *)
(***************************************************************************)
CreateFileStart(r, q0) ==
  LET q == [q0 EXCEPT !.handler = "createFile"] IN
  IF ~Truthy(ParamQ(q, "path"))
  THEN /\ FinishError(r, q, <<"Missing \"path\" parameter">>)
       /\ UNCHANGED <<surfVars, insLog>>
  ELSE \* await vscode.workspace.fs.stat(fileUri)
       /\ Await(r, q, "create_stat", IF fs[PathOf(q)] # None THEN Ok(JUndef) ELSE Failed)
       /\ UNCHANGED <<surfVars, insLog>>

\* const contentText = params.content || ""
ContentText(q) == OrElse(ParamQ(q, "content"), JTxt(<<>>))

CreateStatDone(r) ==
  LET q == reqs[r] IN
  /\ q.pc = "create_stat"
  /\ IF q.res.ok
     THEN /\ FinishError(r, q, <<"File already exists: ", PathOf(q)>>)
          /\ UNCHANGED <<surfVars, insLog>>
     ELSE IF ~IsTxt(ContentText(q))
     THEN \* Buffer.from throws a TypeError for a value that is not a string
          /\ FinishThrown(r, q)
          /\ UNCHANGED <<surfVars, insLog>>
     ELSE \* await vscode.workspace.fs.writeFile(fileUri, contentBytes)
          \/ /\ Await(r, q, "create_write", Ok(JUndef))
             /\ fs' = [fs EXCEPT ![PathOf(q)] = Some(Utf8RoundTrip(ContentText(q).txt))]
             /\ docs' = [docs EXCEPT ![PathOf(q)] =
                           IF @ = None THEN @
                           ELSE Some(SplitLines(Utf8RoundTrip(ContentText(q).txt)))]
             /\ UNCHANGED <<visible, active, sel, insLog>>
          \/ /\ Await(r, q, "create_write", Failed)
             /\ UNCHANGED <<surfVars, insLog>>
  /\ UNCHANGED <<srvVars, workload, envVars>>

CreateWriteDone(r) ==
  LET q == reqs[r] IN
  /\ q.pc = "create_write"
  /\ IF q.res.ok
     THEN \* await vscode.workspace.openTextDocument(fileUri)
          /\ Await(r, q, "create_doc", Ok(JUndef))
          /\ LoadDoc(PathOf(q))
          /\ UNCHANGED <<fs, visible, active, sel, insLog>>
     ELSE /\ FinishError(r, q, <<"Failed to create file: ", "write failed">>)
          /\ UNCHANGED <<surfVars, insLog>>
  /\ UNCHANGED <<srvVars, workload, envVars>>

CreateDocDone(r) ==
  LET q == reqs[r] IN
  /\ q.pc = "create_doc"
  \* await vscode.window.showTextDocument(doc)
  /\ Await(r, q, "create_show", Ok(JUndef))
  /\ ShowEditor(PathOf(q))
  /\ UNCHANGED <<fs, docs, sel, insLog>>
  /\ UNCHANGED <<srvVars, workload, envVars>>

CreateShowDone(r) ==
  LET q == reqs[r] IN
  /\ q.pc = "create_show"
  /\ FinishResponse(r, q, <<"Created file: ", PathOf(q)>>)
  /\ UNCHANGED <<srvVars, workload, envVars, surfVars, insLog>>

(***************************************************************************)
(* saveFile                                                                *)
(***************************************************************************)
SaveFileStart(r, q0) ==
  LET q == [q0 EXCEPT !.handler = "saveFile", !.ed = active] IN
  IF active = None
  THEN /\ FinishError(r, q, <<"No active editor to save">>)
       /\ UNCHANGED <<surfVars, insLog>>
  ELSE \* await editor.document.save()
       \/ /\ Await(r, q, "save", Ok(JUndef))
          /\ fs' = [fs EXCEPT ![active[1]] = Some(JoinLines(docs[active[1]][1]))]
          /\ UNCHANGED <<docs, visible, active, sel, insLog>>
       \/ /\ Await(r, q, "save", Failed)
          /\ UNCHANGED <<surfVars, insLog>>

SaveDone(r) ==
  LET q == reqs[r] IN
  /\ q.pc = "save"
  /\ IF q.res.ok
     THEN FinishResponse(r, q, <<"Saved file: ", q.ed[1]>>)
     ELSE FinishError(r, q, <<"Failed to save file: ", "save failed">>)
  /\ UNCHANGED <<srvVars, workload, envVars, surfVars, insLog>>

(***************************************************************************)
(* closeFile                                                               *)
(***************************************************************************)
CloseFileStart(r, q0) ==
  LET q == [q0 EXCEPT !.handler = "closeFile", !.ed = active] IN
  IF Truthy(ParamQ(q, "path"))
  THEN IF PathOf(q) \notin visible
       THEN /\ FinishError(r, q, <<"File not open: ", PathOf(q)>>)
            /\ UNCHANGED <<surfVars, insLog>>
       ELSE \* await vscode.window.tabGroups.close(...)
            \/ /\ Await(r, q, "close_path", Ok(JUndef))
               /\ CloseEditor(PathOf(q))
               /\ UNCHANGED <<fs, docs, sel, insLog>>
            \/ /\ Await(r, q, "close_path", Failed)
               /\ UNCHANGED <<surfVars, insLog>>
  ELSE IF active = None
       THEN /\ FinishError(r, q, <<"No active editor to close">>)
            /\ UNCHANGED <<surfVars, insLog>>
       ELSE \* await executeCommand('workbench.action.closeActiveEditor')
            \/ /\ Await(r, q, "close_active", Ok(JUndef))
               /\ CloseEditor(active[1])
               /\ UNCHANGED <<fs, docs, sel, insLog>>
            \/ /\ Await(r, q, "close_active", Failed)
               /\ UNCHANGED <<surfVars, insLog>>

ClosePathDone(r) ==
  LET q == reqs[r] IN
  /\ q.pc = "close_path"
  /\ IF q.res.ok
     THEN FinishResponse(r, q, <<"Closed file: ", PathOf(q)>>)
     ELSE FinishError(r, q, <<"Failed to close file: ", "close failed">>)
  /\ UNCHANGED <<srvVars, workload, envVars, surfVars, insLog>>

CloseActiveDone(r) ==
  LET q == reqs[r] IN
  /\ q.pc = "close_active"
  /\ IF q.res.ok
     THEN FinishResponse(r, q, <<"Closed active file: ", q.ed[1]>>)
     ELSE FinishError(r, q, <<"Failed to close file: ", "close failed">>)
  /\ UNCHANGED <<srvVars, workload, envVars, surfVars, insLog>>

(***************************************************************************)
(* getFileContent                                                          *)
(***************************************************************************)
GetFileContentStart(r, q0) ==
  LET q == [q0 EXCEPT !.handler = "getFileContent", !.ed = active] IN
  IF Truthy(ParamQ(q, "path"))
  THEN \* await vscode.workspace.fs.readFile(fileUri)
       /\ Await(r, q, "read",
                IF fs[PathOf(q)] # None THEN Ok(JTxt(fs[PathOf(q)][1])) ELSE Failed)
       /\ UNCHANGED <<surfVars, insLog>>
  ELSE IF active = None
       THEN /\ FinishError(r, q, <<"No active editor to get content from">>)
            /\ UNCHANGED <<surfVars, insLog>>
       ELSE /\ FinishResponse(r, [q EXCEPT !.calls = @ + 1],
                              <<"content", active[1], JoinLines(docs[active[1]][1])>>)
            /\ UNCHANGED <<surfVars, insLog>>

ReadDone(r) ==
  LET q == reqs[r] IN
  /\ q.pc = "read"
  /\ IF q.res.ok
     THEN FinishResponse(r, q, <<"content", PathOf(q), q.res.val.txt>>)
     ELSE FinishError(r, q, <<"Could not read file (not found or inaccessible): ", PathOf(q)>>)
  /\ UNCHANGED <<srvVars, workload, envVars, surfVars, insLog>>

(***************************************************************************)
(* runCommand                                                              *)
(***************************************************************************)
CloseActiveEditorCommand == "workbench.action.closeActiveEditor"
KnownCommands == {"noop", "count", CloseActiveEditorCommand}

\* what a command returns
CommandResult(c) == IF c = "count" THEN JNum(7) ELSE JUndef

\* ...(params.args || []) throws for a value that cannot be iterated
SpreadThrows(args) == Truthy(args) /\ (IsNum(args) \/ IsObj(args))

RunCommandStartNoCheck(r, q0) ==
  LET q == [q0 EXCEPT !.handler = "runCommand"] IN
  /\ Await(r, q, "run", Failed)
  /\ UNCHANGED <<surfVars, insLog>>

RunCommandStart(r, q0) ==
  LET q == [q0 EXCEPT !.handler = "runCommand"]
      c == ParamQ(q, "command").str
  IN
  IF ~Truthy(ParamQ(q, "command"))
  THEN /\ FinishError(r, q, <<"Missing \"command\" parameter">>)
       /\ UNCHANGED <<surfVars, insLog>>
  ELSE IF SpreadThrows(ParamQ(q, "args"))
  THEN /\ FinishError(r, q, <<"Command execution failed: ", "args is not iterable">>)
       /\ UNCHANGED <<surfVars, insLog>>
  ELSE \* await vscode.commands.executeCommand(params.command, ...args)
       IF c \notin KnownCommands
       THEN /\ Await(r, q, "run", Failed)
            /\ UNCHANGED <<surfVars, insLog>>
       ELSE /\ Await(r, q, "run", Ok(CommandResult(c)))
            /\ IF c = CloseActiveEditorCommand /\ active # None
               THEN CloseEditor(active[1]) /\ UNCHANGED <<fs, docs, sel, insLog>>
               ELSE UNCHANGED <<surfVars, insLog>>

RunDone(r) ==
  LET q == reqs[r] IN
  /\ q.pc = "run"
  /\ IF q.res.ok
     THEN FinishResponse(r, q, <<"command", ParamQ(q, "command").str,
                                 IF q.res.val = JUndef THEN JNull ELSE q.res.val, TRUE>>)
     ELSE FinishError(r, q, <<"Command execution failed: ", "command failed">>)
  /\ UNCHANGED <<srvVars, workload, envVars, surfVars, insLog>>

(***************************************************************************)
(* type                                                                    *)
(***************************************************************************)
\* v || 0 for a coordinate
NumOr0(v) == IF Truthy(v) /\ IsNum(v) THEN v.num ELSE 0

\* new vscode.Position(p.line || 0, p.character || 0)
PosParam(p) == Pos(NumOr0(Field(p, "line")), NumOr0(Field(p, "character")))

Min(a, b) == IF a < b THEN a ELSE b

\* "Make sure position is valid": the line is limited to the last line, the
\* character to the length of that line
ClampPosFirstLine(d, p) ==
  LET docLine == Min(p.line, LineCount(d) - 1)
      lineLength == LineLength(d, 0)
  IN Pos(docLine, Min(p.character, lineLength))

ClampPos(d, p) ==
  LET docLine == Min(p.line, LineCount(d) - 1)
      lineLength == LineLength(d, docLine)
  IN Pos(docLine, Min(p.character, lineLength))

\* reading .line of params.selection.start or .end throws when that is absent
SelectionThrows(q) ==
  /\ Truthy(ParamQ(q, "selection"))
  /\ \/ ~NotNullish(Field(ParamQ(q, "selection"), "start"))
     \/ ~NotNullish(Field(ParamQ(q, "selection"), "end"))

\* the selections after "if (params.position) { ... }"
AfterPosition(q, e, d, selNow) ==
  IF Truthy(ParamQ(q, "position"))
  THEN LET validPosition == ClampPos(d, PosParam(ParamQ(q, "position")))
       IN SetSelection(selNow, e, d, Selection(validPosition, validPosition))
  ELSE selNow

\* the selections after "if (params.selection) { ... }"
AfterSelectionUnlessPosition(q, e, d, selNow) ==
  IF Truthy(ParamQ(q, "selection")) /\ ~Truthy(ParamQ(q, "position"))
  THEN LET validStart == ClampPos(d, PosParam(Field(ParamQ(q, "selection"), "start")))
           validEnd == ClampPos(d, PosParam(Field(ParamQ(q, "selection"), "end")))
       IN SetSelection(selNow, e, d, Selection(validStart, validEnd))
  ELSE selNow

AfterSelection(q, e, d, selNow) ==
  IF Truthy(ParamQ(q, "selection"))
  THEN LET validStart == ClampPos(d, PosParam(Field(ParamQ(q, "selection"), "start")))
           validEnd == ClampPos(d, PosParam(Field(ParamQ(q, "selection"), "end")))
       IN SetSelection(selNow, e, d, Selection(validStart, validEnd))
  ELSE selNow

\* const mode = params.mode || 'insert'
ModeOf(q) == OrElse(ParamQ(q, "mode"), JStr("insert"))

TextOf(q) == ParamQ(q, "text").txt

\* const defaultSpeed = config.get<number>('defaultTypingSpeed') ?? 50
defaultSpeed == 50

\* let speed = params.speed != null ? params.speed : defaultSpeed;
\* if (params.duration != null) speed = totalMs / Math.max(params.text.length, 1)
SpeedOfSpeedFirst(q) ==
  IF NotNullish(ParamQ(q, "speed")) THEN ParamQ(q, "speed").num
  ELSE IF NotNullish(ParamQ(q, "duration"))
  THEN ParamQ(q, "duration").num \div (IF Len(TextOf(q)) > 1 THEN Len(TextOf(q)) ELSE 1)
  ELSE defaultSpeed

SpeedOf(q) ==
  IF NotNullish(ParamQ(q, "duration"))
  THEN ParamQ(q, "duration").num \div (IF Len(TextOf(q)) > 1 THEN Len(TextOf(q)) ELSE 1)
  ELSE IF NotNullish(ParamQ(q, "speed")) THEN ParamQ(q, "speed").num
  ELSE defaultSpeed

\* const variation = params.variation || 0
VariationOf(q) == NumOr0(ParamQ(q, "variation"))

\* Math.random()*2 - 1 lies in [-1, 1): its values, counted in halves
RandomHalves == {-2, -1, 0, 1}

\* variation ? speed * (1 + (Math.random()*2 - 1) * variation) : speed
EffectiveDelays(q) ==
  IF VariationOf(q) # 0
  THEN {(SpeedOf(q) * (2 + h * VariationOf(q))) \div 2 : h \in RandomHalves}
  ELSE {SpeedOf(q)}

\* setTimeout(res, delay): a delay below 1 ms is taken as 1 ms
TimerDelayNone(delay) == 0
TimerDelay(delay) == IF delay < 1 THEN 1 ELSE delay

\* the handler awaits the pacing timer of its next character
AwaitTimer(r, q) ==
  /\ \E delay \in EffectiveDelays(q) :
       reqs' = Put(r, [q EXCEPT !.pc = "type_wait", !.res = Ok(JUndef),
                                !.delay = TimerDelay(delay)])
  /\ UNCHANGED <<sent, socks>>

\* the rest of the handler from "Determine typing speed and variation" to
\* its next await, selNow being the selections at that point
TypeAfterClear(r, q, selNow) ==
  LET e == q.ed[1]
      d == docs[e][1]
      selA == IF ModeOf(q) = JStr("append")
              THEN SetSelection(selNow, e, d, Selection(EndPos(d), EndPos(d)))
              ELSE selNow
  IN
  IF ParamQ(q, "quick") = JBool(TRUE)
  THEN \* await editor.edit(b => b.insert(editor.selection.active, params.text))
       IF e \in visible
       THEN /\ Await(r, q, "type_quick", Ok(JUndef))
            /\ docs' = [docs EXCEPT ![e] = Some(InsertAt(d, selA[e].active, TextOf(q)))]
            /\ sel' = [selA EXCEPT ![e] = InsertedSel(@, TextOf(q))]
            /\ insLog' = [insLog EXCEPT ![e] = Append(@, r)]
            /\ UNCHANGED <<fs, visible, active>>
       ELSE \* the editor was closed: edit rejects
            /\ Await(r, q, "type_quick", Failed)
            /\ sel' = selA
            /\ UNCHANGED <<fs, docs, visible, active, insLog>>
  ELSE \* first iteration of the loop: await the pacing timer
       /\ AwaitTimer(r, q)
       /\ sel' = selA
       /\ UNCHANGED <<fs, docs, visible, active, insLog>>

TypeStartEditorFirst(r, q0) ==
  LET q == [q0 EXCEPT !.handler = "type", !.ed = active] IN
  IF active = None
  THEN /\ FinishError(r, q, <<"No active editor to type into">>)
       /\ UNCHANGED <<surfVars, insLog>>
  ELSE IF ~Truthy(ParamQ(q, "text"))
  THEN /\ FinishError(r, q, <<"Missing \"text\" to type">>)
       /\ UNCHANGED <<surfVars, insLog>>
  ELSE LET e == active[1]
           d == docs[e][1]
           sel1 == AfterPosition(q, e, d, sel)
           sel2 == AfterSelection(q, e, d, sel1)
       IN
       IF SelectionThrows(q)
       THEN /\ FinishError(r, q, <<"Typing failed: ", "cannot read properties of undefined">>)
            /\ sel' = sel1
            /\ UNCHANGED <<fs, docs, visible, active, insLog>>
       ELSE IF ModeOf(q) = JStr("replace") /\ ~SelIsEmpty(sel2[e])
       THEN \* await editor.edit(b => b.delete(editor.selection))
            /\ Await(r, q, "type_clear", Ok(JUndef))
            /\ docs' = [docs EXCEPT ![e] = Some(DeleteRange(d, SelStart(sel2[e]), SelEnd(sel2[e])))]
            /\ sel' = [sel2 EXCEPT ![e] = Selection(SelStart(@), SelStart(@))]
            /\ UNCHANGED <<fs, visible, active, insLog>>
       ELSE TypeAfterClear(r, q, sel2)

TypeStart(r, q0) ==
  LET q == [q0 EXCEPT !.handler = "type", !.ed = active] IN
  IF ~Truthy(ParamQ(q, "text"))
  THEN /\ FinishError(r, q, <<"Missing \"text\" to type">>)
       /\ UNCHANGED <<surfVars, insLog>>
  ELSE IF active = None
  THEN /\ FinishError(r, q, <<"No active editor to type into">>)
       /\ UNCHANGED <<surfVars, insLog>>
  ELSE LET e == active[1]
           d == docs[e][1]
           sel1 == AfterPosition(q, e, d, sel)
           sel2 == AfterSelection(q, e, d, sel1)
       IN
       IF SelectionThrows(q)
       THEN /\ FinishError(r, q, <<"Typing failed: ", "cannot read properties of undefined">>)
            /\ sel' = sel1
            /\ UNCHANGED <<fs, docs, visible, active, insLog>>
       ELSE IF ModeOf(q) = JStr("replace") /\ ~SelIsEmpty(sel2[e])
       THEN \* await editor.edit(b => b.delete(editor.selection))
            /\ Await(r, q, "type_clear", Ok(JUndef))
            /\ docs' = [docs EXCEPT ![e] = Some(DeleteRange(d, SelStart(sel2[e]), SelEnd(sel2[e])))]
            /\ sel' = [sel2 EXCEPT ![e] = Selection(SelStart(@), SelStart(@))]
            /\ UNCHANGED <<fs, visible, active, insLog>>
       ELSE TypeAfterClear(r, q, sel2)

TypeClearDone(r) ==
  LET q == reqs[r] IN
  /\ q.pc = "type_clear"
  /\ TypeAfterClear(r, q, sel)
  /\ UNCHANGED <<srvVars, workload, envVars>>

TypeQuickDoneThenCursor(r) ==
  LET q == reqs[r]
      e == q.ed[1]
  IN
  /\ q.pc = "type_quick"
  /\ IF q.res.ok
     THEN FinishResponse(r, q, <<"Inserted ", Len(TextOf(q)), " characters (quick mode)">>)
     ELSE FinishError(r, q, <<"Typing failed: ", "edit not possible on closed editors">>)
  /\ IF Truthy(ParamQ(q, "afterCursor"))
     THEN sel' = [sel EXCEPT ![e] = Selection(ValidPos(docs[e][1], PosParam(ParamQ(q, "afterCursor"))),
                                             ValidPos(docs[e][1], PosParam(ParamQ(q, "afterCursor"))))]
     ELSE UNCHANGED sel
  /\ UNCHANGED <<srvVars, workload, envVars, fs, docs, visible, active, insLog>>

TypeQuickDone(r) ==
  LET q == reqs[r] IN
  /\ q.pc = "type_quick"
  /\ IF q.res.ok
     THEN FinishResponse(r, q, <<"Inserted ", Len(TextOf(q)), " characters (quick mode)">>)
     ELSE FinishError(r, q, <<"Typing failed: ", "edit not possible on closed editors">>)
  /\ UNCHANGED <<srvVars, workload, envVars, surfVars, insLog>>

\* the pacing timer fires, no earlier than its delay after it was set:
\* await vscode.commands.executeCommand('default:type', { text: ch })
TypeTimerFired(r) ==
  LET q == [reqs[r] EXCEPT !.waited = @ + reqs[r].delay]
      ch == <<TextOf(q)[q.k + 1]>>
  IN
  /\ q.pc = "type_wait"
  /\ IF active # None
     THEN LET a == active[1] IN
          /\ Await(r, [q EXCEPT !.lost = @ \/ (q.ed # active)],
                   "type_char", Ok(JUndef))
          /\ docs' = [docs EXCEPT ![a] = Some(TypedDoc(@[1], sel[a], ch))]
          /\ sel' = [sel EXCEPT ![a] = TypedSel(@, ch)]
          /\ insLog' = [insLog EXCEPT ![a] = Append(@, r)]
          /\ UNCHANGED <<fs, visible, active>>
     ELSE \* no editor has the focus: the command has nothing to type into
          /\ \/ Await(r, [q EXCEPT !.lost = TRUE], "type_char", Ok(JUndef))
             \/ Await(r, [q EXCEPT !.lost = TRUE], "type_char", Failed)
          /\ UNCHANGED <<surfVars, insLog>>
  /\ UNCHANGED <<srvVars, workload, envVars>>

TypeCharDone(r) ==
  LET q == reqs[r]
      e == q.ed[1]
      d == docs[e][1]
  IN
  /\ q.pc = "type_char"
  /\ IF ~q.res.ok
     THEN /\ FinishError(r, q, <<"Typing failed: ", "command failed">>)
          /\ UNCHANGED <<surfVars, insLog>>
     ELSE IF q.k + 1 < Len(TextOf(q))
     THEN /\ AwaitTimer(r, [q EXCEPT !.k = @ + 1])
          /\ UNCHANGED <<surfVars, insLog>>
     ELSE /\ FinishResponse(r, [q EXCEPT !.k = @ + 1],
                            <<"Typed ", Len(TextOf(q)), " characters">>)
          /\ IF Truthy(ParamQ(q, "afterCursor"))
             THEN LET afterPos == PosParam(ParamQ(q, "afterCursor"))
                  IN sel' = SetSelection(sel, e, d, Selection(afterPos, afterPos))
             ELSE UNCHANGED sel
          /\ UNCHANGED <<fs, docs, visible, active, insLog>>
  /\ UNCHANGED <<srvVars, workload, envVars>>

(***************************************************************************)
(* socket.on('message')                                                    *)
(***************************************************************************)
\* the handler of the 'message' event of socket s, for the message m
OnMessage(s, m) ==
  LET r == Len(reqs) + 1
      q == NewReq(s, m)
  IN
  /\ s \in socks
  /\ m \in workload
  /\ Len(reqs) < MaxReqs
  /\ IF ~IsParsed(m)
     THEN \* JSON.parse throws a SyntaxError
          /\ Finish(r, q, sendInvalidJson(sent, s, r))
          /\ UNCHANGED <<surfVars, insLog>>
     ELSE IF m.json = JNull
     THEN \* msg.id throws a TypeError
          /\ FinishThrown(r, q)
          /\ UNCHANGED <<surfVars, insLog>>
     ELSE LET action == ActionOf(m.json) IN
          IF ~Truthy(action)
          THEN /\ FinishError(r, q, <<"Missing required \"action\" or \"method\" field">>)
               /\ UNCHANGED <<surfVars, insLog>>
          ELSE IF action = JStr("openFile") THEN OpenFileStart(r, q)
          ELSE IF action = JStr("createFile") THEN CreateFileStart(r, q)
          ELSE IF action = JStr("saveFile") THEN SaveFileStart(r, q)
          ELSE IF action = JStr("closeFile") THEN CloseFileStart(r, q)
          ELSE IF action = JStr("getFileContent") THEN GetFileContentStart(r, q)
          ELSE IF action = JStr("runCommand") THEN RunCommandStart(r, q)
          ELSE IF action = JStr("type") THEN TypeStart(r, q)
          ELSE /\ FinishError(r, q, <<"Unknown action: ", action>>)
               /\ UNCHANGED <<surfVars, insLog>>
  /\ UNCHANGED <<srvVars, workload, sendFails, logVars, obsVars>>

\* message m arrives on socket s and is emitted at once
ReceiveWhenIdle(s, m) ==
  /\ \A r \in 1..Len(reqs) : reqs[r].pc = "done"
  /\ OnMessage(s, m)
  /\ UNCHANGED netVars

Receive(s, m) ==
  /\ OnMessage(s, m)
  /\ UNCHANGED netVars

\* message m arrives on socket s behind the messages that wait there
Arrive(s, m) ==
  /\ s \in socks
  /\ m \in workload
  /\ Len(reqs) + Len(inbox) < MaxReqs
  /\ inbox' = Append(inbox, [sock |-> s, msg |-> m, seq |-> Len(started) + Len(inbox) + 1])
  /\ UNCHANGED <<regVars, msgVars, surfVars, insLog, sendFails, started, logVars, obsVars>>

\* the inbox without its i-th message
Without(box, i) == SubSeq(box, 1, i - 1) \o SubSeq(box, i + 1, Len(box))

\* the socket emits a waiting message whatever arrived before it
EmitAny(s) ==
  \E i \in 1..Len(inbox) :
    /\ inbox[i].sock = s
    /\ OnMessage(s, inbox[i].msg)
    /\ inbox' = Without(inbox, i)
    /\ started' = Append(started, [sock |-> s, seq |-> inbox[i].seq])

\* the socket emits 'message' for the oldest of its waiting messages: the
\* handler runs up to its first await before the next message is emitted
Emit(s) ==
  \E i \in 1..Len(inbox) :
    /\ inbox[i].sock = s
    /\ \A j \in 1..(i - 1) : inbox[j].sock # s
    /\ OnMessage(s, inbox[i].msg)
    /\ inbox' = Without(inbox, i)
    /\ started' = Append(started, [sock |-> s, seq |-> inbox[i].seq])

(***************************************************************************)
(* Inputs of the protocol                                                  *)
(***************************************************************************)
\* the two client connections of the protocol runs
Conns == {1, 2}

\* values of the id field: absent, null, falsy scalars, truthy scalars
Ids == {JUndef, JNull, JNum(0), JStr(""), JNum(1), JStr("a")}

WithParams(id, action, params) == Request(id, JStr(action), JUndef, JObj(params))
Bare(id, action) == Request(id, JStr(action), JUndef, JUndef)

P(l, c) == JObj([line |-> JNum(l), character |-> JNum(c)])

\* payloads that exercise the router
RouterMsgs ==
  {BadSyntax, Parsed(JNull), Parsed(JNum(5))}
    \cup {Request(id, JUndef, JUndef, JUndef) : id \in Ids}
    \cup {Bare(id, "bogus") : id \in Ids}
    \cup {Request(id, JUndef, JStr("getFileContent"), JUndef) : id \in Ids}

\* openFile and getFileContent requests, and a payload that does not parse
OpenMsgs ==
  {Bare(JNum(1), "openFile"),
   WithParams(JNum(1), "openFile", [NoParams EXCEPT !.path = JStr("/a")]),
   WithParams(JNum(1), "openFile", [NoParams EXCEPT !.path = JStr("/n")]),
   WithParams(JNum(1), "getFileContent", [NoParams EXCEPT !.path = JStr("/a")]),
   WithParams(JNum(1), "getFileContent", [NoParams EXCEPT !.path = JStr("/n")]),
   Bare(JNum(1), "getFileContent"),
   WithParams(JUndef, "openFile", [NoParams EXCEPT !.path = JStr("/a")]),
   WithParams(JUndef, "openFile", [NoParams EXCEPT !.path = JStr("/n")]),
   BadSyntax}

\* createFile requests
CreateMsgs ==
  {Bare(JNum(1), "createFile"),
   WithParams(JNum(1), "createFile", [NoParams EXCEPT !.path = JStr("/a")]),
   WithParams(JNum(1), "createFile",
              [NoParams EXCEPT !.path = JStr("/n"), !.content = JTxt(<<"h", "i">>)]),
   WithParams(JNum(1), "createFile",
              [NoParams EXCEPT !.path = JStr("/n"), !.content = JNum(5)]),
   WithParams(JUndef, "createFile", [NoParams EXCEPT !.path = JStr("/n")])}

\* saveFile, closeFile and runCommand requests
EditorMsgs ==
  {Bare(JNum(1), "saveFile"),
   Bare(JNum(1), "closeFile"),
   WithParams(JNum(1), "closeFile", [NoParams EXCEPT !.path = JStr("/a")]),
   Bare(JNum(1), "runCommand"),
   WithParams(JNum(1), "runCommand", [NoParams EXCEPT !.command = JStr("count")]),
   WithParams(JNum(1), "runCommand", [NoParams EXCEPT !.command = JStr("no.such.command")]),
   WithParams(JNum(1), "runCommand",
              [NoParams EXCEPT !.command = JStr("noop"), !.args = JNum(5)]),
   WithParams(JNum(1), "runCommand",
              [NoParams EXCEPT !.command = JStr(CloseActiveEditorCommand)]),
   Bare(JUndef, "saveFile")}

\* type requests, and a request that closes the editor typed into
TypeMsgs ==
  {Bare(JNum(1), "type"),
   WithParams(JNum(1), "type", [NoParams EXCEPT !.text = JTxt(<<"a", "b">>)]),
   WithParams(JNum(1), "type",
              [NoParams EXCEPT !.text = JTxt(<<"c", "d">>), !.quick = JBool(TRUE)]),
   WithParams(JNum(1), "type",
              [NoParams EXCEPT !.text = JTxt(<<"e">>), !.mode = JStr("replace"),
                 !.selection = JObj([start |-> P(0, 0), end |-> P(0, 1)]),
                 !.afterCursor = P(0, 0)]),
   WithParams(JNum(1), "type",
              [NoParams EXCEPT !.text = JTxt(<<"f">>), !.mode = JStr("append"),
                 !.position = P(3, 1),
                 !.selection = JObj([start |-> P(0, 0), end |-> JUndef])]),
   Bare(JNum(1), "closeFile")}

\* the action names of the branches of the 'message' handler
SupportedActions ==
  {"openFile", "createFile", "saveFile", "closeFile", "getFileContent",
   "runCommand", "type"}

\* every action name, and one that is not supported, named in "action" and
\* named in "method"; none of these requests changes the workbench
AliasParams(a) ==
  IF a = "closeFile" THEN JObj([NoParams EXCEPT !.path = JStr("/n")]) ELSE JUndef

AliasMsgs ==
  {Request(JNum(1), JStr(a), JUndef, AliasParams(a)) : a \in SupportedActions \cup {"bogus"}}
    \cup {Request(JNum(1), JUndef, JStr(a), AliasParams(a)) : a \in SupportedActions \cup {"bogus"}}
    \cup {Request(JNum(1), JStr("bogus"), JStr("saveFile"), JUndef),
          Request(JNum(1), JStr(""), JStr("getFileContent"), JUndef)}

\* type requests that place the cursor or the selection first
Typing(params) == WithParams(JNum(1), "type", params)

ClampMsgs ==
  {Typing([NoParams EXCEPT !.text = JTxt(<<"a">>), !.position = pos]) :
     pos \in {P(0, 0), P(0, 9), P(1, 2), P(2, 1), P(9, 0), P(9, 9)}}
    \cup
  {Typing([NoParams EXCEPT !.text = JTxt(<<"a">>),
             !.selection = JObj([start |-> P(0, 1), end |-> P(9, 9)])]),
   Typing([NoParams EXCEPT !.text = JTxt(<<"a">>),
             !.selection = JObj([start |-> P(1, 1), end |-> P(0, 5)])])}

\* quick-mode type requests
QuickMsgs ==
  {Typing([NoParams EXCEPT !.text = JTxt(<<"c", "d">>), !.quick = JBool(TRUE)]),
   Typing([NoParams EXCEPT !.text = JTxt(<<"c", "d">>), !.quick = JBool(TRUE),
             !.position = P(1, 1)]),
   Typing([NoParams EXCEPT !.text = JTxt(<<"c", "d">>), !.quick = JBool(TRUE),
             !.position = P(9, 9)]),
   Typing([NoParams EXCEPT !.text = JTxt(<<"c", "d">>), !.quick = JBool(TRUE),
             !.selection = JObj([start |-> P(0, 0), end |-> P(0, 1)])]),
   Typing([NoParams EXCEPT !.text = JTxt(<<"c", "d">>), !.quick = JBool(TRUE),
             !.mode = JStr("replace"),
             !.selection = JObj([start |-> P(0, 0), end |-> P(0, 1)])]),
   Typing([NoParams EXCEPT !.text = JTxt(<<"c", "d">>), !.quick = JBool(TRUE),
             !.mode = JStr("replace"),
             !.selection = JObj([start |-> P(0, 1), end |-> P(9, 9)])]),
   Typing([NoParams EXCEPT !.text = JTxt(<<"c", "d">>), !.quick = JBool(TRUE),
             !.mode = JStr("append"), !.position = P(0, 0)])}

\* animated type requests with their pacing parameters
PaceMsgs ==
  {Typing([NoParams EXCEPT !.text = JTxt(<<"a", "b">>)]),
   Typing([NoParams EXCEPT !.text = JTxt(<<"a", "b">>), !.speed = JNum(0)]),
   Typing([NoParams EXCEPT !.text = JTxt(<<"a", "b">>), !.speed = JNum(2)]),
   Typing([NoParams EXCEPT !.text = JTxt(<<"a", "b">>), !.speed = JNum(2),
             !.variation = JNum(0)]),
   Typing([NoParams EXCEPT !.text = JTxt(<<"a", "b">>), !.duration = JNum(6)]),
   Typing([NoParams EXCEPT !.text = JTxt(<<"a", "b">>), !.speed = JNum(4),
             !.position = P(1, 1)]),
   Typing([NoParams EXCEPT !.text = JTxt(<<"a", "b", "c">>), !.speed = JNum(1)])}

\* a type request, a createFile that brings another document to the front
\* and a closeFile that closes the active editor
SwitchMsgs ==
  {Typing([NoParams EXCEPT !.text = JTxt(<<"a", "b">>)]),
   WithParams(JNum(1), "createFile",
              [NoParams EXCEPT !.path = JStr("/n"), !.content = JTxt(<<"h", "i">>)]),
   Bare(JNum(1), "closeFile")}

\* requests that fail in the handler, and requests that succeed
FaultMsgs ==
  {BadSyntax,
   Parsed(JNull),
   Bare(JNum(1), "bogus"),
   Bare(JNum(1), "saveFile"),
   Bare(JNum(1), "getFileContent"),
   WithParams(JNum(1), "getFileContent", [NoParams EXCEPT !.path = JStr("/n")]),
   WithParams(JNum(1), "runCommand", [NoParams EXCEPT !.command = JStr("no.such.command")])}

\* createFile requests for a new path, and the request that reads it back
RoundMsgs ==
  {WithParams(JNum(1), "createFile",
              [NoParams EXCEPT !.path = JStr("/n"), !.content = JTxt(<<"h", "i">>)]),
   WithParams(JNum(1), "createFile",
              [NoParams EXCEPT !.path = JStr("/n"), !.content = JTxt(<<"h", LoneSurrogate>>)]),
   WithParams(JNum(1), "createFile", [NoParams EXCEPT !.path = JStr("/n")]),
   WithParams(JNum(1), "getFileContent", [NoParams EXCEPT !.path = JStr("/n")])}

\* runCommand requests: commands with and without a return value, an
\* unknown command, arguments that cannot be spread
RunMsgs ==
  {WithParams(id, "runCommand", [NoParams EXCEPT !.command = JStr(c)]) :
     id \in {JNum(0), JNum(1)}, c \in {"count", "noop", "no.such.command"}}
    \cup
  {WithParams(JNum(1), "runCommand",
              [NoParams EXCEPT !.command = JStr("noop"), !.args = JNum(5)])}

\* type requests that give a position and a selection
BothMsgs ==
  {Typing([NoParams EXCEPT !.text = JTxt(<<"a">>), !.position = P(1, 1),
             !.selection = JObj([start |-> P(0, 1), end |-> P(0, 1)])]),
   Typing([NoParams EXCEPT !.text = JTxt(<<"a">>), !.position = P(0, 0),
             !.selection = JObj([start |-> P(0, 1), end |-> P(9, 9)])]),
   Typing([NoParams EXCEPT !.text = JTxt(<<"a">>), !.position = P(9, 9),
             !.selection = JObj([start |-> P(0, 0), end |-> P(0, 1)]),
             !.quick = JBool(TRUE)]),
   Typing([NoParams EXCEPT !.text = JTxt(<<"a">>), !.position = P(1, 0),
             !.selection = JObj([start |-> P(0, 1), end |-> P(9, 9)]),
             !.mode = JStr("replace"), !.quick = JBool(TRUE)]),
   Typing([NoParams EXCEPT !.text = JTxt(<<"a">>), !.position = P(9, 9),
             !.selection = JObj([start |-> P(0, 0), end |-> P(0, 1)]),
             !.mode = JStr("replace")]),
   Typing([NoParams EXCEPT !.text = JTxt(<<"a">>), !.position = P(0, 0),
             !.selection = JObj([start |-> P(0, 0), end |-> P(0, 1)]),
             !.mode = JStr("append"), !.quick = JBool(TRUE)])}

\* animated type requests that place the cursor after the last character
AfterMsgs ==
  {Typing([NoParams EXCEPT !.text = JTxt(<<"a", "b">>), !.position = P(0, 0),
             !.afterCursor = P(9, 9)]),
   Typing([NoParams EXCEPT !.text = JTxt(<<"a", "b">>), !.afterCursor = P(0, 1)]),
   Typing([NoParams EXCEPT !.text = JTxt(<<"a", "b">>), !.position = P(0, 1),
             !.afterCursor = P(1, 9)]),
   Typing([NoParams EXCEPT !.text = JTxt(<<"a", "b">>), !.speed = JNum(0),
             !.afterCursor = P(0, 0)])}

\* append-mode type requests, with and without positioning
AppendMsgs ==
  {Typing([NoParams EXCEPT !.text = JTxt(<<"a", "b">>), !.mode = JStr("append")]),
   Typing([NoParams EXCEPT !.text = JTxt(<<"a", "b">>), !.mode = JStr("append"),
             !.position = P(0, 0)]),
   Typing([NoParams EXCEPT !.text = JTxt(<<"a", "b">>), !.mode = JStr("append"),
             !.selection = JObj([start |-> P(0, 0), end |-> P(0, 1)])]),
   Typing([NoParams EXCEPT !.text = JTxt(<<"a", "b">>), !.mode = JStr("append"),
             !.quick = JBool(TRUE),
             !.selection = JObj([start |-> P(0, 0), end |-> P(0, 1)])]),
   Typing([NoParams EXCEPT !.text = JTxt(<<"a", "b">>), !.mode = JStr("append"),
             !.quick = JBool(TRUE), !.position = P(0, 0)])}

\* animated type requests that give a duration, a speed, both or neither
ResolveMsgs ==
  {Typing([NoParams EXCEPT !.text = JTxt(<<"a", "b">>), !.duration = JNum(6),
             !.speed = JNum(4)]),
   Typing([NoParams EXCEPT !.text = JTxt(<<"a", "b">>), !.duration = JNum(0),
             !.speed = JNum(4)]),
   Typing([NoParams EXCEPT !.text = JTxt(<<"a", "b">>), !.duration = JNull,
             !.speed = JNum(4)]),
   Typing([NoParams EXCEPT !.text = JTxt(<<"a">>), !.duration = JNum(7)]),
   Typing([NoParams EXCEPT !.text = JTxt(<<"a", "b">>), !.speed = JNum(0)]),
   Typing([NoParams EXCEPT !.text = JTxt(<<"a", "b">>), !.speed = JNull]),
   Typing([NoParams EXCEPT !.text = JTxt(<<"a", "b">>)])}

\* animated type requests with a variation
JitterMsgs ==
  {Typing([NoParams EXCEPT !.text = JTxt(<<"a">>), !.speed = JNum(4),
             !.variation = JNum(v)]) : v \in {0, 1, 3}}

\* quick-mode type requests that give afterCursor
QuickAfterMsgs ==
  {Typing([NoParams EXCEPT !.text = JTxt(<<"c", "d">>), !.quick = JBool(TRUE),
             !.afterCursor = P(9, 9)]),
   Typing([NoParams EXCEPT !.text = JTxt(<<"c", "d">>), !.quick = JBool(TRUE),
             !.position = P(0, 1), !.afterCursor = P(0, 0)]),
   Typing([NoParams EXCEPT !.text = JTxt(<<"c", "d">>), !.quick = JBool(TRUE),
             !.mode = JStr("replace"),
             !.selection = JObj([start |-> P(0, 0), end |-> P(0, 1)]),
             !.afterCursor = P(1, 0)])}

\* type requests whose text is the empty string
EmptyMsgs ==
  {Typing([NoParams EXCEPT !.text = JTxt(<<>>)]),
   Typing([NoParams EXCEPT !.text = JTxt(<<>>), !.quick = JBool(TRUE)]),
   Typing([NoParams EXCEPT !.text = JTxt(<<>>), !.quick = JBool(TRUE),
             !.mode = JStr("replace"),
             !.selection = JObj([start |-> P(0, 0), end |-> P(0, 1)]),
             !.afterCursor = P(0, 1)]),
   Typing([NoParams EXCEPT !.text = JTxt(<<>>), !.position = P(0, 1),
             !.mode = JStr("append")])}

TypeWorkloads ==
  {ClampMsgs, QuickMsgs, PaceMsgs, BothMsgs, AfterMsgs, AppendMsgs, ResolveMsgs,
   JitterMsgs, QuickAfterMsgs, EmptyMsgs}

\* the documents typed into: one line, two lines, three lines with empty ones
TypeDocs ==
  {<<"x", "y">>, <<"x", "\n", "y", "z">>, <<"\n", "a", "b", "c", "\n">>}

Workloads == {RouterMsgs, OpenMsgs, CreateMsgs, EditorMsgs, TypeMsgs}

(***************************************************************************)
(* The protocol: initial state and next-state relation                     *)
(***************************************************************************)
\* a server without authentication that both clients have connected to;
\* the file /a is on disk and is either not open or open in the active editor
\* two clients are connected and send the messages of w; the file /a holds
\* content and is open in the active editor iff open
InitOn(w, content, open) ==
  /\ authEnabled = FALSE
  /\ authToken = None
  /\ wss = TRUE
  /\ clientCount = Cardinality(Conns)
  /\ socks = Conns
  /\ nextSock = Cardinality(Conns)
  /\ lastAttempt = [made |-> TRUE, url |-> None, header |-> None, accept |-> TRUE,
                    code |-> 0, message |-> "", handled |-> TRUE]
  /\ workload = w
  /\ IdleEnv
  /\ reqs = <<>>
  /\ sent = <<>>
  /\ fs = [p \in Paths |-> IF p = "/a" THEN Some(content) ELSE None]
  /\ docs = [p \in Paths |-> IF p = "/a" /\ open THEN Some(SplitLines(content)) ELSE None]
  /\ visible = (IF open THEN {"/a"} ELSE {})
  /\ active = (IF open THEN Some("/a") ELSE None)
  /\ sel = [p \in Paths |-> NoSelection]
  /\ insLog = [p \in Paths |-> <<>>]

InitWith(w) == \E open \in BOOLEAN : InitOn(w, <<"x", "y">>, open)

InitMsg == \E w \in Workloads : InitWith(w)

Live == {r \in 1..Len(reqs) : reqs[r].pc # "done"}

NextMsg ==
  \/ \E s \in Conns, m \in workload : Receive(s, m)
  \/ \E r \in Live : OpenDocDone(r)
  \/ \E r \in Live : OpenShowDone(r)
  \/ \E r \in Live : CreateStatDone(r)
  \/ \E r \in Live : CreateWriteDone(r)
  \/ \E r \in Live : CreateDocDone(r)
  \/ \E r \in Live : CreateShowDone(r)
  \/ \E r \in Live : SaveDone(r)
  \/ \E r \in Live : ClosePathDone(r)
  \/ \E r \in Live : CloseActiveDone(r)
  \/ \E r \in Live : ReadDone(r)
  \/ \E r \in Live : RunDone(r)
  \/ \E r \in Live : TypeClearDone(r)
  \/ \E r \in Live : TypeQuickDone(r)
  \/ \E r \in Live : TypeTimerFired(r)
  \/ \E r \in Live : TypeCharDone(r)

SpecMsg == InitMsg /\ [][NextMsg]_vars

\* the protocol when the clients send createFile requests only
InitCreate == InitWith(CreateMsgs)

NextCreate ==
  \/ \E s \in Conns, m \in workload : Receive(s, m)
  \/ \E r \in Live : CreateStatDone(r)
  \/ \E r \in Live : CreateWriteDone(r)
  \/ \E r \in Live : CreateDocDone(r)
  \/ \E r \in Live : CreateShowDone(r)

SpecCreate == InitCreate /\ [][NextCreate]_vars

\* the protocol when one client sends type requests to an open editor
InitType == \E w \in TypeWorkloads, content \in TypeDocs : InitOn(w, content, TRUE)

NextType ==
  \/ \E m \in workload : Len(reqs) < MaxJobs /\ Receive(1, m)
  \/ \E r \in Live : TypeClearDone(r)
  \/ \E r \in Live : TypeQuickDone(r)
  \/ \E r \in Live : TypeTimerFired(r)
  \/ \E r \in Live : TypeCharDone(r)

SpecType == InitType /\ [][NextType]_vars

\* the protocol when messages wait on the wire before they are emitted
OrderMsgs ==
  {Typing([NoParams EXCEPT !.text = JTxt(<<"a", "b">>)]),
   Bare(JNum(1), "closeFile"),
   Bare(JNum(1), "bogus")}

InitOrder == InitOn(OrderMsgs, <<"x", "y">>, TRUE)

NextOrder ==
  \/ \E s \in Conns, m \in workload : Arrive(s, m)
  \/ \E s \in Conns : Emit(s)
  \/ \E r \in Live : CloseActiveDone(r)
  \/ \E r \in Live : TypeTimerFired(r)
  \/ \E r \in Live : TypeCharDone(r)

SpecOrder == InitOrder /\ [][NextOrder]_vars

\* the protocol when commands are run
InitRun == InitWith(RunMsgs)

NextRun ==
  \/ \E s \in Conns, m \in workload : Receive(s, m)
  \/ \E r \in Live : RunDone(r)

SpecRun == InitRun /\ [][NextRun]_vars

\* the protocol when a file is created and read back
InitRound == InitWith(RoundMsgs)

NextRound ==
  \/ \E s \in Conns, m \in workload : Receive(s, m)
  \/ \E r \in Live : CreateStatDone(r)
  \/ \E r \in Live : CreateWriteDone(r)
  \/ \E r \in Live : CreateDocDone(r)
  \/ \E r \in Live : CreateShowDone(r)
  \/ \E r \in Live : ReadDone(r)

SpecRound == InitRound /\ [][NextRound]_vars

\* the protocol when the editor typed into is closed or loses the front
InitSwitch == InitOn(SwitchMsgs, <<"x", "y">>, TRUE)

NextSwitch ==
  \/ \E s \in Conns, m \in workload : Receive(s, m)
  \/ \E r \in Live : CreateStatDone(r)
  \/ \E r \in Live : CreateWriteDone(r)
  \/ \E r \in Live : CreateDocDone(r)
  \/ \E r \in Live : CreateShowDone(r)
  \/ \E r \in Live : CloseActiveDone(r)
  \/ \E r \in Live : TypeTimerFired(r)
  \/ \E r \in Live : TypeCharDone(r)

SpecSwitch == InitSwitch /\ [][NextSwitch]_vars

\* socket.send starts or stops throwing
SendFault ==
  /\ sendFails' = ~sendFails
  /\ UNCHANGED <<regVars, msgVars, surfVars, insLog, netVars, logVars, obsVars>>

\* the protocol when handlers fail and sends fail
InitFault == InitWith(FaultMsgs)

NextFault ==
  \/ \E s \in Conns, m \in workload : Receive(s, m)
  \/ \E r \in Live : SaveDone(r)
  \/ \E r \in Live : ReadDone(r)
  \/ \E r \in Live : RunDone(r)
  \/ SendFault

SpecFault == InitFault /\ [][NextFault]_vars

\* the protocol when the clients name the action in "action" or in "method"
InitAlias == InitWith(AliasMsgs)

NextAlias ==
  \/ \E s \in Conns, m \in workload : Receive(s, m)
  \/ \E r \in Live : SaveDone(r)

SpecAlias == InitAlias /\ [][NextAlias]_vars

(***************************************************************************)
(* Claims about the protocol                                               *)
(***************************************************************************)
Received == 1..Len(reqs)
Sent == {sent[i] : i \in 1..Len(sent)}

\* the id field of the payload of request r (JUndef when it has none)
IdField(r) ==
  IF IsParsed(reqs[r].msg) THEN Field(reqs[r].msg.json, "id") ELSE JUndef

\* C1: the insertions of one typing job into a document are not interleaved
\* with those of another job: between two insertions of the same job into a
\* document there is no insertion of another job
C1_NoInterleaving ==
  \A p \in Paths : \A i, j, k \in 1..Len(insLog[p]) :
    (i < j /\ j < k /\ insLog[p][i] = insLog[p][k]) => insLog[p][j] = insLog[p][i]

\* C2: a request without id causes no outbound message, on success and on
\* every error path
C2_NoIdNoMessage ==
  \A r \in Received :
    (IsParsed(reqs[r].msg) /\ IdField(r) = JUndef) => SentFor(sent, r) = <<>>

\* C3: every response sent for a request whose id is present carries an id
\* equal to the request's id
C3_IdEchoed ==
  \A x \in Sent :
    (IsParsed(reqs[x.req].msg) /\ IdField(x.req) # JUndef) =>
      x.id = Some(IdField(x.req))

\* C4: for a request with a non-null id at most one message is sent, and it
\* has exactly one of result and error
C4_AtMostOneResponse ==
  \A r \in Received :
    (IsParsed(reqs[r].msg) /\ NotNullish(IdField(r))) =>
      /\ Len(SentFor(sent, r)) <= 1
      /\ \A i \in 1..Len(SentFor(sent, r)) :
           (SentFor(sent, r)[i].result = None) # (SentFor(sent, r)[i].error = None)

\* two requests with id 1 were answered, one by a result and one by an error
C4_Witness ==
  /\ Len(reqs) = 2
  /\ \A r \in Received : reqs[r].pc = "done" /\ IdField(r) = JNum(1)
  /\ Len(sent) = 2
  /\ \E x, y \in Sent : x.req # y.req /\ x.result # None /\ y.error # None

\* C5: once the handler of a request that carries an id has finished, a
\* response with that id has been sent
C5_FinishedImpliesReplied ==
  \A r \in Received :
    (IsParsed(reqs[r].msg) /\ NotNullish(IdField(r)) /\ reqs[r].pc = "done") =>
      \E x \in Sent : x.req = r /\ x.id = Some(IdField(r))

\* C10: a payload that is not valid JSON gets exactly one message, the
\* generic error without id; no action branch is entered and no call is made
\* to the document surface
C10_InvalidJsonGenericError ==
  \A r \in Received :
    ~IsParsed(reqs[r].msg) =>
      /\ SentFor(sent, r) =
           <<Message(reqs[r].sock, r, None, None, Some(<<InvalidJsonText>>))>>
      /\ reqs[r].pc = "done"
      /\ reqs[r].handler = "none"
      /\ reqs[r].calls = 0

\* an unparseable payload arrived while another request was in flight
C10_Witness ==
  /\ Len(reqs) = 2
  /\ reqs[1].pc # "done"
  /\ ~IsParsed(reqs[2].msg)
  /\ sent # <<>>

(***************************************************************************)
(* Claims about the registry                                               *)
(***************************************************************************)
\* the latest attempt was made against a server that checks a secret
SecretConfigured == authEnabled /\ authToken # None

\* the header value h stands for the token tok: h is tok, or h is tok with
\* the marker "Bearer " written into it, the marker being the first one in h
HeaderStandsFor(h, tok) ==
  \/ h = tok /\ \A i \in 1..Len(h) : ~OccursAt(h, BEARER, i)
  \/ \E i \in 1..Len(h) :
       /\ OccursAt(h, BEARER, i)
       /\ \A m \in 1..(i - 1) : ~OccursAt(h, BEARER, m)
       /\ SubSeq(h, 1, i - 1) \o SubSeq(h, i + Len(BEARER), Len(h)) = tok

\* C6 (as stated): with a secret configured an attempt is accepted iff the
\* token query parameter or the Authorization header value equals the
\* secret; a rejected attempt gets the invalid-credential status and does
\* not reach the connection handler
C6_AcceptIffValueEqualsSecret ==
  (SecretConfigured /\ lastAttempt.made) =>
    /\ lastAttempt.accept <=>
          (lastAttempt.url = authToken \/ lastAttempt.header = authToken)
    /\ ~lastAttempt.accept =>
          /\ lastAttempt.code = 401
          /\ lastAttempt.message = InvalidTokenMessage
          /\ ~lastAttempt.handled

\* C6 (amended): with a secret configured an attempt is accepted iff the
\* token query parameter equals the secret or the Authorization header
\* value, once its first "Bearer " marker is removed, equals the secret; a
\* rejected attempt gets the invalid-credential status and does not reach
\* the connection handler
C6_AcceptIffCandidateEqualsSecret ==
  (SecretConfigured /\ lastAttempt.made) =>
    /\ lastAttempt.accept <=>
          \/ lastAttempt.url = authToken
          \/ /\ lastAttempt.header # None
             /\ HeaderStandsFor(lastAttempt.header[1], authToken[1])
    /\ lastAttempt.handled <=> lastAttempt.accept
    /\ ~lastAttempt.accept =>
          /\ lastAttempt.code = 401
          /\ lastAttempt.message = InvalidTokenMessage

\* a bearer-style header carrying the secret was accepted
C6_Witness ==
  /\ SecretConfigured
  /\ lastAttempt.made
  /\ lastAttempt.accept
  /\ lastAttempt.url # authToken
  /\ lastAttempt.header = Some(BEARER \o authToken[1])

\* C7: with authentication enabled and no secret, every attempt is rejected
\* whatever it presents, and what the rejection reports differs from what a
\* wrong token gets
C7_FailClosed ==
  (authEnabled /\ authToken = None /\ lastAttempt.made) =>
    /\ ~lastAttempt.accept
    /\ ~lastAttempt.handled
    /\ <<lastAttempt.code, lastAttempt.message>> # <<401, InvalidTokenMessage>>

\* an attempt that presented a token was rejected by a server without secret
C7_Witness ==
  /\ authEnabled
  /\ authToken = None
  /\ lastAttempt.made
  /\ lastAttempt.url = Some(<<"s">>)
  /\ ~lastAttempt.accept

\* C8: with authentication disabled every attempt is accepted, with or
\* without a token
C8_DisabledAcceptsAll ==
  (~authEnabled /\ lastAttempt.made) =>
    /\ lastAttempt.accept
    /\ lastAttempt.handled

\* an attempt without any token was accepted by a server without
\* authentication
C8_Witness ==
  /\ ~authEnabled
  /\ lastAttempt.made
  /\ lastAttempt.url = None
  /\ lastAttempt.header = None
  /\ lastAttempt.accept
  /\ nextSock \in socks

\* C9: the live connection count equals the number of open client
\* connections in every reachable state
C9_CountEqualsOpen == clientCount = Cardinality(socks)

(***************************************************************************)
(* Claims about the router                                                 *)
(***************************************************************************)
\* the payload of request r is a JSON object
IsObjectPayload(r) == IsParsed(reqs[r].msg) /\ IsObj(reqs[r].msg.json)

\* the name request r gives in its action field, or else in its method field
NameField(r, f) == Field(reqs[r].msg.json, f)
NamedAction(r) ==
  IF NameField(r, "action") # JUndef THEN NameField(r, "action")
  ELSE NameField(r, "method")

\* id, result and error of the messages sent for request r
Payloads(r) ==
  [i \in 1..Len(SentFor(sent, r)) |->
     [id |-> SentFor(sent, r)[i].id, result |-> SentFor(sent, r)[i].result,
      error |-> SentFor(sent, r)[i].error]]

\* C11: a request whose action name is not a supported action is answered
\* with one error made of 'Unknown action' and the name, carrying the
\* request's id when it has one, and no call to the document surface is made
C11_UnknownActionError ==
  \A r \in Received :
    (/\ IsObjectPayload(r)
     /\ IsStr(NameField(r, "action"))
     /\ NameField(r, "action").str # ""
     /\ NameField(r, "action").str \notin SupportedActions) =>
      /\ reqs[r].pc = "done"
      /\ reqs[r].calls = 0
      /\ Len(SentFor(sent, r)) = 1
      /\ SentFor(sent, r)[1].result = None
      /\ SentFor(sent, r)[1].error = Some(<<"Unknown action: ", NameField(r, "action")>>)
      /\ IdField(r) # JUndef => SentFor(sent, r)[1].id = Some(IdField(r))

\* C12: a request that has neither an action nor a method field is answered
\* with the missing-action error; no branch is entered and no call is made
C12_MissingActionError ==
  \A r \in Received :
    (/\ IsObjectPayload(r)
     /\ NameField(r, "action") = JUndef
     /\ NameField(r, "method") = JUndef) =>
      /\ reqs[r].pc = "done"
      /\ reqs[r].handler = "none"
      /\ reqs[r].calls = 0
      /\ Len(SentFor(sent, r)) = 1
      /\ SentFor(sent, r)[1].result = None
      /\ SentFor(sent, r)[1].error =
           Some(<<"Missing required \"action\" or \"method\" field">>)

\* a request with id 1 and no action nor method got the error, while the
\* request before it was dispatched
C12_Witness ==
  \E r \in Received :
    /\ IsObjectPayload(r)
    /\ NameField(r, "action") = JUndef
    /\ NameField(r, "method") = JUndef
    /\ IdField(r) = JNum(1)
    /\ Len(SentFor(sent, r)) = 1
    /\ \E r0 \in Received : r0 < r /\ reqs[r0].handler # "none"

\* request r1 names its action in "action", request r2 names the same action
\* in "method" and has no action field; id and params are the same
Twins(r1, r2) ==
  /\ IsObjectPayload(r1)
  /\ IsObjectPayload(r2)
  /\ NameField(r1, "action") # JUndef
  /\ NameField(r1, "method") = JUndef
  /\ NameField(r2, "action") = JUndef
  /\ NameField(r2, "method") = NameField(r1, "action")
  /\ NameField(r1, "id") = NameField(r2, "id")
  /\ NameField(r1, "params") = NameField(r2, "params")

\* C13: a request naming action A in "method", with no action field, enters
\* the same branch as the request naming A in "action"; when the surface
\* answered both alike, the calls made and the messages sent are the same
C13_MethodIsAlias ==
  \A r1, r2 \in Received :
    Twins(r1, r2) =>
      /\ reqs[r1].handler = reqs[r2].handler
      /\ (reqs[r1].pc = "done" /\ reqs[r2].pc = "done" /\ reqs[r1].res = reqs[r2].res) =>
           /\ reqs[r1].calls = reqs[r2].calls
           /\ Payloads(r1) = Payloads(r2)

\* saveFile named in "action" and saveFile named in "method" were both
\* answered with the result of a save
C13_Witness ==
  \E r1, r2 \in Received :
    /\ Twins(r1, r2)
    /\ NameField(r1, "action") = JStr("saveFile")
    /\ reqs[r1].pc = "done" /\ reqs[r2].pc = "done"
    /\ reqs[r2].calls = 1
    /\ Len(SentFor(sent, r2)) = 1
    /\ SentFor(sent, r2)[1].result # None
    /\ Payloads(r1) = Payloads(r2)

\* the parameter f of request r is absent
Lacks(r, f) == Param(reqs[r].msg.json, f) = JUndef

\* C14: openFile and createFile without path, and runCommand without
\* command, are answered with the missing-parameter error before any call to
\* the document surface
C14_MissingParamBeforeSurface ==
  \A r \in Received :
    /\ (reqs[r].handler \in {"openFile", "createFile"} /\ Lacks(r, "path")) =>
         /\ reqs[r].pc = "done"
         /\ reqs[r].calls = 0
         /\ Len(SentFor(sent, r)) = 1
         /\ SentFor(sent, r)[1].error = Some(<<"Missing \"path\" parameter">>)
    /\ (reqs[r].handler = "runCommand" /\ Lacks(r, "command")) =>
         /\ reqs[r].pc = "done"
         /\ reqs[r].calls = 0
         /\ Len(SentFor(sent, r)) = 1
         /\ SentFor(sent, r)[1].error = Some(<<"Missing \"command\" parameter">>)

\* runCommand without command was refused after another runCommand had run
C14_Witness ==
  \E r0, r \in Received :
    /\ r0 < r
    /\ reqs[r0].handler = "runCommand" /\ reqs[r0].calls = 1
    /\ reqs[r].handler = "runCommand" /\ Lacks(r, "command")
    /\ Len(SentFor(sent, r)) = 1

(***************************************************************************)
(* Claims about the typing engine                                          *)
(***************************************************************************)
\* the position that stands for the requested position p (a JSON object) in
\* document d: the line limited to the last line, the character to the
\* length of that line
UsedPos(d, p) ==
  LET l == IF Field(p, "line").num < LineCount(d) - 1
           THEN Field(p, "line").num ELSE LineCount(d) - 1
      c == IF Field(p, "character").num < Len(d[l + 1])
           THEN Field(p, "character").num ELSE Len(d[l + 1])
  IN Pos(l, c)

\* q is a type request that found an editor and a text to type
TypeJob(q) ==
  /\ q.handler = "type"
  /\ q.ed # None
  /\ Truthy(ParamQ(q, "text"))

\* how often request r inserted into the document of path p
Insertions(r, p) == Cardinality({i \in 1..Len(insLog[p]) : insLog[p][i] = r})

\* the line with text txt put in at character c
Spliced(line, c, txt) == SubSeq(line, 1, c) \o txt \o SubSeq(line, c + 1, Len(line))

\* the step that receives a type request with a position or a selection of
\* non-negative components sends no error and leaves the selection of the
\* editor at the limited positions
C15_Step ==
  \A r \in {Len(reqs) + 1} :
    (/\ Len(reqs') = r
     /\ TypeJob(reqs'[r])
     /\ ~SelectionThrows(reqs'[r])) =>
      LET q == reqs'[r]
          e == q.ed[1]
          d == docs[e][1]
          position == ParamQ(q, "position")
          selection == ParamQ(q, "selection")
      IN
      /\ \A i \in 1..Len(SentFor(sent', r)) : SentFor(sent', r)[i].error = None
      /\ (q.pc = "type_wait" /\ ModeOf(q) # JStr("append")) =>
           IF Truthy(selection)
           THEN sel'[e] = Selection(UsedPos(d, Field(selection, "start")),
                                    UsedPos(d, Field(selection, "end")))
           ELSE Truthy(position) =>
                  sel'[e] = Selection(UsedPos(d, position), UsedPos(d, position))

\* C15: for a requested position or selection endpoint with non-negative
\* components, the line used is min(line, lineCount - 1) and the character
\* used is min(character, length of that line); the request is not rejected
C15_PositionsClamped == [][C15_Step]_vars

\* position (9, 9) was requested in a document of three lines whose last
\* line is empty: the cursor stands at (2, 0) and the job awaits its timer
C15_Witness ==
  \E r \in Received :
    /\ TypeJob(reqs[r])
    /\ reqs[r].pc = "type_wait"
    /\ ParamQ(reqs[r], "position") = P(9, 9)
    /\ LineCount(docs[reqs[r].ed[1]][1]) = 3
    /\ sel[reqs[r].ed[1]] = Selection(Pos(2, 0), Pos(2, 0))
    /\ SentFor(sent, r) = <<>>

\* q is a quick-mode type request
QuickJob(q) == TypeJob(q) /\ ParamQ(q, "quick") = JBool(TRUE)

\* the cursor of a quick job: the end of the document in append mode, the
\* placed selection's active end or the placed position for a request that
\* just arrived, and otherwise the cursor of the editor
QuickCursor(q, d, fresh, cursor) ==
  IF ModeOf(q) = JStr("append")
  THEN Pos(LineCount(d) - 1, Len(d[LineCount(d)]))
  ELSE IF fresh /\ Truthy(ParamQ(q, "selection"))
  THEN UsedPos(d, Field(ParamQ(q, "selection"), "end"))
  ELSE IF fresh /\ Truthy(ParamQ(q, "position"))
  THEN UsedPos(d, ParamQ(q, "position"))
  ELSE cursor

\* the step in which a quick job issues its edit puts the whole text in at
\* the cursor, as one insertion, and touches no other document
C16_Step ==
  \A r \in 1..Len(reqs') :
    (/\ QuickJob(reqs'[r])
     /\ reqs'[r].pc = "type_quick"
     /\ reqs'[r].res.ok
     /\ (r > Len(reqs) \/ reqs[r].pc = "type_clear")) =>
      LET q == reqs'[r]
          e == q.ed[1]
          d == docs[e][1]
          c == QuickCursor(q, d, r > Len(reqs), sel[e].active)
      IN
      /\ docs'[e] = Some([d EXCEPT ![c.line + 1] = Spliced(@, c.character, TextOf(q))])
      /\ insLog'[e] = Append(insLog[e], r)
      /\ \A p \in Paths \ {e} : insLog'[p] = insLog[p] /\ docs'[p] = docs[p]

\* a quick job never awaits a pacing timer, inserts at most once, and its
\* result reports the length of the text after exactly one insertion
C16_Inv ==
  \A r \in Received :
    QuickJob(reqs[r]) =>
      /\ reqs[r].pc \in {"type_clear", "type_quick", "done"}
      /\ reqs[r].delay = 0 /\ reqs[r].waited = 0
      /\ \A p \in Paths : Insertions(r, p) <= (IF p = reqs[r].ed[1] THEN 1 ELSE 0)
      /\ \A i \in 1..Len(SentFor(sent, r)) :
           SentFor(sent, r)[i].result # None =>
             /\ SentFor(sent, r)[i].result =
                  Some(<<"Inserted ", Len(TextOf(reqs[r])), " characters (quick mode)">>)
             /\ Insertions(r, reqs[r].ed[1]) = 1

\* C16: quick-mode typing of text T makes exactly one insertion, of the
\* whole of T at the cursor the positioning left, awaits no pacing timer and
\* reports the count T.length
C16_QuickSingleInsertion == [][C16_Step]_vars /\ []C16_Inv

\* "cd" was typed in quick mode at the requested position (1, 1) of the
\* document of lines "x" and "yz", and the count 2 was reported
C16_Witness ==
  \E r \in Received :
    /\ QuickJob(reqs[r])
    /\ reqs[r].pc = "done"
    /\ ParamQ(reqs[r], "position") = P(1, 1)
    /\ docs[reqs[r].ed[1]] = Some(<<<<"x">>, <<"y", "c", "d", "z">>>>)
    /\ insLog[reqs[r].ed[1]] = <<r>>
    /\ Len(SentFor(sent, r)) = 1
    /\ SentFor(sent, r)[1].result = Some(<<"Inserted ", 2, " characters (quick mode)">>)

\* q is an animated type request whose parameters were read without error
AnimatedJob(q) ==
  /\ TypeJob(q)
  /\ ~SelectionThrows(q)
  /\ ParamQ(q, "quick") # JBool(TRUE)

\* the characters for which the typing command was issued
Issued(q) == IF q.pc = "type_char" THEN q.k + 1 ELSE q.k

\* C17: animated typing of text T with variation 0: before its n-th
\* character is typed the job has waited n times the delay; in a job
\* on its own the characters typed so far are the first n of T, in order at
\* the cursor, one insertion each, and all of T when the job is done
C17_AnimatedPacedInOrder ==
  \A r \in Received :
    (AnimatedJob(reqs[r]) /\ VariationOf(reqs[r]) = 0) =>
      LET q == reqs[r]
          n == Issued(q)
          e == q.ed[1]
          d0 == SplitLines(fs[e][1])
          c0 == IF Truthy(ParamQ(q, "position"))
                THEN UsedPos(d0, ParamQ(q, "position")) ELSE Pos(0, 0)
      IN
      /\ q.waited >= n * SpeedOf(q)
      /\ (/\ Len(reqs) = 1
          /\ ModeOf(q) = JStr("insert")
          /\ ~Truthy(ParamQ(q, "selection"))) =>
           /\ docs[e] = Some([d0 EXCEPT ![c0.line + 1] =
                                Spliced(@, c0.character, SubSeq(TextOf(q), 1, n))])
           /\ Len(insLog[e]) = n
           /\ \A i \in 1..n : insLog[e][i] = r
           /\ q.pc = "done" => n = Len(TextOf(q))

\* "abc" was typed at 1 ms per character into the one-line document "xy":
\* the job is done after 3 ms of waiting and the line reads "abcxy"
C17_Witness ==
  \E r \in Received :
    /\ AnimatedJob(reqs[r])
    /\ reqs[r].pc = "done"
    /\ ParamQ(reqs[r], "speed") = JNum(1)
    /\ reqs[r].waited = 3
    /\ docs[reqs[r].ed[1]] = Some(<<<<"a", "b", "c", "x", "y">>>>)
    /\ Len(SentFor(sent, r)) = 1
    /\ SentFor(sent, r)[1].result # None

\* C18: when typing a character fails part-way through an animated job, no
\* further character is inserted, and the error response reports the number
\* of characters committed before the failure
C18_FailureReportsCommitted ==
  \A r \in Received :
    (AnimatedJob(reqs[r]) /\ reqs[r].pc = "done" /\ ~reqs[r].res.ok) =>
      /\ \A p \in Paths : Insertions(r, p) <= reqs[r].k
      /\ Len(SentFor(sent, r)) = 1
      /\ SentFor(sent, r)[1].error # None
      /\ LET body == SentFor(sent, r)[1].error[1] IN
           /\ body[1] = "Typing failed: "
           /\ Len(body) >= 3
           /\ body[3] = reqs[r].k

\* C19: no character of an animated job is inserted into a document other
\* than the one that was in front when the job started, and a job during
\* which that document was closed or lost the front sends no success
\* response and ends with an error
C19_AbortWhenEditorLost ==
  \A r \in Received :
    AnimatedJob(reqs[r]) =>
      /\ \A p \in Paths \ {reqs[r].ed[1]} : Insertions(r, p) = 0
      /\ reqs[r].lost =>
           /\ \A i \in 1..Len(SentFor(sent, r)) : SentFor(sent, r)[i].result = None
           /\ reqs[r].pc = "done" =>
                \E i \in 1..Len(SentFor(sent, r)) : SentFor(sent, r)[i].error # None

(***************************************************************************)
(* Claims about failures and the connection                                *)
(***************************************************************************)
\* the branch the payload of request r names
NamedBranch(r) ==
  IF /\ IsObjectPayload(r)
     /\ IsStr(NamedAction(r))
     /\ NamedAction(r).str \in SupportedActions
  THEN NamedAction(r).str ELSE "none"

\* C20: no failure of a handler and no failing send closes a connection:
\* every socket stays open, every message received on it, after whatever
\* failures, was dispatched to the branch it names, and the next message
\* can be received
C20_ErrorsKeepConnection ==
  /\ \A r \in Received : reqs[r].sock \in socks
  /\ \A r \in Received : reqs[r].handler = NamedBranch(r)
  /\ Len(reqs) < MaxReqs =>
       \A s \in Conns : \A m \in workload : ENABLED Receive(s, m)

\* on one socket a command failed and the send of its error failed too;
\* the next request on that socket was answered with a result
C20_Witness ==
  \E r1, r2 \in Received :
    /\ r1 < r2
    /\ reqs[r1].sock = reqs[r2].sock
    /\ reqs[r1].handler = "runCommand"
    /\ reqs[r1].pc = "done"
    /\ ~reqs[r1].res.ok
    /\ SentFor(sent, r1) = <<>>
    /\ reqs[r2].pc = "done"
    /\ Len(SentFor(sent, r2)) = 1
    /\ SentFor(sent, r2)[1].result # None

(***************************************************************************)
(* Claims about files                                                      *)
(***************************************************************************)
\* request r is a createFile whose writeFile call succeeded
Wrote(r) ==
  /\ reqs[r].handler = "createFile"
  /\ reqs[r].calls >= 2
  /\ reqs[r].res.ok

\* the path parameter of request r
PathParam(r) == Param(reqs[r].msg.json, "path")

\* C21: createFile never overwrites an existing file: a createFile whose
\* stat found the file is answered with the already-exists error and
\* writes nothing, and of the createFile requests for one path, in flight
\* together or not, at most one writes
C21_CreateNeverOverwrites ==
  /\ \A r \in Received :
       (reqs[r].handler = "createFile" /\ reqs[r].pc = "done"
          /\ reqs[r].calls = 1 /\ reqs[r].res.ok) =>
         /\ Len(SentFor(sent, r)) = 1
         /\ SentFor(sent, r)[1].error = Some(<<"File already exists: ", PathParam(r).str>>)
  /\ \A r1, r2 \in Received :
       (r1 # r2 /\ Wrote(r1) /\ Wrote(r2)) => PathParam(r1) # PathParam(r2)

\* C22: after a successful createFile(path, content) that is the only
\* write to the file, getFileContent(path) returns the path and exactly
\* the content given, the empty string when none was given
C22_CreateThenReadRoundTrip ==
  \A r1, r2 \in Received :
    (/\ Wrote(r1)
     /\ reqs[r1].pc = "done"
     /\ \A r3 \in Received \ {r1} : ~(Wrote(r3) /\ PathParam(r3) = PathParam(r1))
     /\ reqs[r2].handler = "getFileContent"
     /\ PathParam(r2) = PathParam(r1)
     /\ reqs[r2].pc = "done"
     /\ reqs[r2].res.ok) =>
      /\ Len(SentFor(sent, r2)) = 1
      /\ SentFor(sent, r2)[1].result =
           Some(<<"content", PathParam(r1).str,
                  IF Param(reqs[r1].msg.json, "content") = JUndef THEN <<>>
                  ELSE Param(reqs[r1].msg.json, "content").txt>>)

(***************************************************************************)
(* Claims about the typing modes                                           *)
(***************************************************************************)
\* the number of characters of document d that stand before position p
FlatOffset(d, p) ==
  (IF p.line = 0 THEN 0 ELSE Len(JoinLines(SubSeq(d, 1, p.line))) + 1) + p.character

\* the document a typing job started from: nothing else writes the file
OriginalDoc(e) == SplitLines(fs[e][1])

\* the selection in effect when job q starts to type into original document d
SelectionInEffect(q, d) ==
  IF Truthy(ParamQ(q, "selection"))
  THEN Selection(UsedPos(d, Field(ParamQ(q, "selection"), "start")),
                 UsedPos(d, Field(ParamQ(q, "selection"), "end")))
  ELSE IF Truthy(ParamQ(q, "position"))
  THEN Selection(UsedPos(d, ParamQ(q, "position")), UsedPos(d, ParamQ(q, "position")))
  ELSE NoSelection

\* request r is a typing job that was answered with a result
TypedOk(r) ==
  /\ TypeJob(reqs[r])
  /\ reqs[r].pc = "done"
  /\ Len(SentFor(sent, r)) = 1
  /\ SentFor(sent, r)[1].result # None

\* in replace mode a non-empty selection is deleted and the text stands in
\* its place
C23_ReplacePart ==
  \A r \in Received :
    (TypedOk(r) /\ ModeOf(reqs[r]) = JStr("replace")) =>
      LET e == reqs[r].ed[1]
          d == OriginalDoc(e)
          x == SelectionInEffect(reqs[r], d)
          flat == JoinLines(d)
      IN ~SelIsEmpty(x) =>
           JoinLines(docs[e][1]) =
             SubSeq(flat, 1, FlatOffset(d, SelStart(x))) \o TextOf(reqs[r])
               \o SubSeq(flat, FlatOffset(d, SelEnd(x)) + 1, Len(flat))

\* in insert and append mode nothing is deleted: the document is the
\* original one with the text put in at one place
C23_InsertPart ==
  \A r \in Received :
    (TypedOk(r) /\ ModeOf(reqs[r]) # JStr("replace")) =>
      LET e == reqs[r].ed[1]
          flat == JoinLines(OriginalDoc(e))
      IN \E i \in 0..Len(flat) :
           JoinLines(docs[e][1]) =
             SubSeq(flat, 1, i) \o TextOf(reqs[r]) \o SubSeq(flat, i + 1, Len(flat))

\* C23: in replace mode with a non-empty selection the result is the text
\* before the selection start, the typed text, and the text after the
\* selection end; in insert and append mode the job deletes nothing
C23_ReplaceDeletesOthersDoNot == C23_ReplacePart /\ C23_InsertPart

(***************************************************************************)
(* Claims about runCommand                                                 *)
(***************************************************************************)
\* request r is a runCommand with a command and an id
RunJob(r) ==
  /\ reqs[r].handler = "runCommand"
  /\ Truthy(Param(reqs[r].msg.json, "command"))
  /\ NotNullish(Field(reqs[r].msg.json, "id"))

\* C24: runCommand invokes the named command exactly once (when its
\* arguments can be passed) and never again; on success the client gets one
\* result that names the command, has success = true and the return value
\* (null when there is none); when the command fails or is unknown the
\* client gets one error with the id of the request that wraps the failure
C24_RunCommandOnce ==
  \A r \in Received :
    RunJob(r) =>
      LET q == reqs[r]
          id == Field(q.msg.json, "id")
          c == Param(q.msg.json, "command").str
          answers == SentFor(sent, r)
      IN
      /\ q.calls <= 1
      /\ ~SpreadThrows(Param(q.msg.json, "args")) => q.calls = 1
      /\ q.pc = "done" =>
           /\ Len(answers) = 1
           /\ answers[1].id = Some(id)
           /\ IF q.calls = 1 /\ q.res.ok
              THEN /\ c \in KnownCommands
                   /\ answers[1].error = None
                   /\ answers[1].result =
                        Some(<<"command", c,
                               IF c = "count" THEN JNum(7) ELSE JNull, TRUE>>)
              ELSE /\ answers[1].result = None
                   /\ answers[1].error # None
                   /\ answers[1].error[1][1] = "Command execution failed: "

(***************************************************************************)
(* Claims about the preconditions of type                                  *)
(***************************************************************************)
\* the step that receives a type request without text, or with a text
\* while no editor is active, answers with the error of that case and
\* leaves every document, selection and editor as it was
C25_Step ==
  \A r \in {Len(reqs) + 1} :
    (Len(reqs') = r /\ reqs'[r].handler = "type") =>
      LET q == reqs'[r]
          answers == SentFor(sent', r)
          refusal == IF ~Truthy(ParamQ(q, "text"))
                     THEN Some(<<"Missing \"text\" to type">>)
                     ELSE IF active = None
                     THEN Some(<<"No active editor to type into">>)
                     ELSE None
      IN refusal # None =>
           /\ q.pc = "done"
           /\ q.calls = 0
           /\ Len(answers) = 1
           /\ answers[1].error = refusal
           /\ answers[1].result = None
           /\ surfVars' = surfVars
           /\ insLog' = insLog

\* C25: type without text fails with the missing-text error, and type with
\* a text but no active editor fails with the no-active-document error;
\* in both cases cursor, selection and document content stay unchanged
C25_TypeRefusedLeavesSurface == [][C25_Step]_vars

\* both refusals were sent: one request had no text, the other found no
\* active editor
C25_Witness ==
  \E r1, r2 \in Received :
    /\ reqs[r1].handler = "type" /\ ~Truthy(ParamQ(reqs[r1], "text"))
    /\ Len(SentFor(sent, r1)) = 1
    /\ SentFor(sent, r1)[1].error = Some(<<"Missing \"text\" to type">>)
    /\ reqs[r2].handler = "type" /\ Truthy(ParamQ(reqs[r2], "text"))
    /\ Len(SentFor(sent, r2)) = 1
    /\ SentFor(sent, r2)[1].error = Some(<<"No active editor to type into">>)
    /\ active = None

(***************************************************************************)
(* Claims about the order of dispatch                                      *)
(***************************************************************************)
\* C27: of two messages that arrive on one connection, the handler of the
\* later one never starts before the handler of the earlier one has started
C27_StartsInArrivalOrder ==
  /\ Len(started) = Len(reqs)
  /\ \A i, j \in 1..Len(started) :
       (i < j /\ started[i].sock = started[j].sock) => started[i].seq < started[j].seq
  /\ \A i \in 1..Len(started), j \in 1..Len(inbox) :
       started[i].sock = inbox[j].sock => started[i].seq < inbox[j].seq

\* two messages arrived on one connection, the handler of the first is
\* suspended in its typing job and the handler of the second has started
C27_Witness ==
  \E i, j \in 1..Len(started) :
    /\ i < j
    /\ started[i].sock = started[j].sock
    /\ started[i].seq < started[j].seq
    /\ reqs[i].pc = "type_wait"

(***************************************************************************)
(* Claims about handlers in flight                                         *)
(***************************************************************************)
\* the next step of the suspended handler of request r
Resume(r) ==
  \/ CreateStatDone(r)
  \/ CreateWriteDone(r)
  \/ CreateDocDone(r)
  \/ CreateShowDone(r)
  \/ CloseActiveDone(r)
  \/ TypeTimerFired(r)
  \/ TypeCharDone(r)

\* request r is an animated typing job that is suspended
Suspended(r) ==
  /\ AnimatedJob(reqs[r])
  /\ reqs[r].pc \in {"type_wait", "type_char"}

\* C28: while an animated typing job is suspended, a message on the same
\* or on another connection can be received and its handler started, and
\* every other handler in flight can take its next step: later requests
\* are dispatched and complete before the job finishes
C28_InFlightDoesNotBlock ==
  \A r \in Received :
    Suspended(r) =>
      /\ Len(reqs) < MaxReqs =>
           \A s \in socks, m \in workload : ENABLED Receive(s, m)
      /\ \A r2 \in Live \ {r} : ENABLED Resume(r2)

\* a later request on the connection of a suspended typing job has been
\* answered while the job still waits for the timer of a character
C28_Witness ==
  \E r1, r2 \in Received :
    /\ r1 < r2
    /\ Suspended(r1)
    /\ reqs[r1].k = 1
    /\ reqs[r2].sock = reqs[r1].sock
    /\ reqs[r2].handler = "createFile"
    /\ reqs[r2].pc = "done"
    /\ Len(SentFor(sent, r2)) = 1
    /\ SentFor(sent, r2)[1].result # None

(***************************************************************************)
(* Claims about position and selection given together                      *)
(***************************************************************************)
\* q is a typing job whose request gives a position and a selection
BothGiven(q) ==
  /\ TypeJob(q)
  /\ ~SelectionThrows(q)
  /\ Truthy(ParamQ(q, "position"))
  /\ Truthy(ParamQ(q, "selection"))

\* the requested selection of job q, limited to document d
RequestedRange(q, d) ==
  Selection(UsedPos(d, Field(ParamQ(q, "selection"), "start")),
            UsedPos(d, Field(ParamQ(q, "selection"), "end")))

\* the step that receives a request with a position and a selection leaves
\* the limited selection range in effect, and what it deletes or inserts
\* at once is placed by that range
C29_Step ==
  \A r \in {Len(reqs) + 1} :
    (Len(reqs') = r /\ BothGiven(reqs'[r])) =>
      LET q == reqs'[r]
          e == q.ed[1]
          d == docs[e][1]
          x == RequestedRange(q, d)
      IN
      /\ (q.pc = "type_wait" /\ ModeOf(q) # JStr("append")) => sel'[e] = x
      /\ q.pc = "type_clear" =>
           /\ ModeOf(q) = JStr("replace") /\ ~SelIsEmpty(x)
           /\ JoinLines(docs'[e][1]) =
                SubSeq(JoinLines(d), 1, FlatOffset(d, SelStart(x)))
                  \o SubSeq(JoinLines(d), FlatOffset(d, SelEnd(x)) + 1, Len(JoinLines(d)))
           /\ sel'[e] = Selection(SelStart(x), SelStart(x))
      /\ (q.pc = "type_quick" /\ ModeOf(q) # JStr("append")) =>
           docs'[e][1] = [d EXCEPT ![x.active.line + 1] =
                                     Spliced(@, x.active.character, TextOf(q))]

\* the document a lone job with a position and a selection leaves behind
\* is fixed by the selection, the mode and the text alone
C29_Inv ==
  \A r \in Received :
    (Received = {r} /\ TypedOk(r) /\ BothGiven(reqs[r])) =>
      LET q == reqs[r]
          e == q.ed[1]
          d == OriginalDoc(e)
          x == RequestedRange(q, d)
          flat == JoinLines(d)
          from == IF ModeOf(q) = JStr("append") THEN Len(flat)
                  ELSE IF ParamQ(q, "quick") = JBool(TRUE) /\ ModeOf(q) # JStr("replace")
                  THEN FlatOffset(d, x.active)
                  ELSE FlatOffset(d, SelStart(x))
          upto == IF ModeOf(q) = JStr("append") THEN Len(flat)
                  ELSE IF ParamQ(q, "quick") = JBool(TRUE) /\ ModeOf(q) # JStr("replace")
                  THEN FlatOffset(d, x.active)
                  ELSE FlatOffset(d, SelEnd(x))
      IN JoinLines(docs[e][1]) =
           SubSeq(flat, 1, from) \o TextOf(q) \o SubSeq(flat, upto + 1, Len(flat))

\* C29: when a type request gives both a position and a selection, the
\* selection in effect when typing starts is the selection range limited
\* to the document, and the position has no effect on where the text goes
C29_SelectionOverridesPosition == [][C29_Step]_vars /\ []C29_Inv

\* position (1, 1) and the empty selection at (0, 1) were requested for the
\* document "x", "yz": the character went into the first line
C29_Witness ==
  \E r \in Received :
    /\ TypedOk(r)
    /\ BothGiven(reqs[r])
    /\ ParamQ(reqs[r], "position") = P(1, 1)
    /\ docs[reqs[r].ed[1]] = Some(<<(<<"x", "a">>), (<<"y", "z">>)>>)

(***************************************************************************)
(* Claims about the cursor after typing                                    *)
(***************************************************************************)
\* q is an animated typing job whose request gives afterCursor
AfterJob(q) ==
  /\ AnimatedJob(q)
  /\ Truthy(ParamQ(q, "afterCursor"))

\* the step in which an animated job with afterCursor returns its result
\* has typed every character before and leaves the cursor as an empty
\* selection at afterCursor, limited to the document
C30_Step ==
  \A r \in Live :
    (/\ AfterJob(reqs[r])
     /\ reqs'[r].pc = "done"
     /\ Len(SentFor(sent', r)) = 1
     /\ SentFor(sent', r)[1].result # None) =>
      LET q == reqs[r]
          e == q.ed[1]
          d == docs[e][1]
          at == UsedPos(d, ParamQ(q, "afterCursor"))
      IN
      /\ q.pc = "type_char"
      /\ q.k + 1 = Len(TextOf(q))
      /\ Insertions(r, e) = Len(TextOf(q))
      /\ docs' = docs
      /\ sel'[e] = Selection(at, at)

\* while a lone animated job with afterCursor is not finished, the cursor
\* stands behind the characters typed so far, not at afterCursor
C30_Inv ==
  \A r \in Received :
    (/\ Received = {r}
     /\ AfterJob(reqs[r])
     /\ reqs[r].pc # "done") =>
      LET q == reqs[r]
          e == q.ed[1]
          begin == IF Truthy(ParamQ(q, "position"))
                   THEN UsedPos(OriginalDoc(e), ParamQ(q, "position"))
                   ELSE Pos(0, 0)
          cursor == Pos(begin.line, begin.character + Issued(q))
      IN sel[e] = Selection(cursor, cursor)

C26_LogsIdentical == log = twin.log

\* C26, amended: two runs that differ only in the value of the secret and
\* in the tokens the clients present, and that accept the same connection
\* attempts, log the same sequence of messages
C26_SameOutcomesSameLog == twin.agree => log = twin.log

\* the two runs hold different secrets, their clients presented different
\* tokens, and each run logged an accepted and a rejected attempt
C26_Witness ==
  /\ twin.agree
  /\ authToken # None /\ twin.authToken # None
  /\ authToken # twin.authToken
  /\ lastAttempt.made /\ ~lastAttempt.accept
  /\ \E i \in 1..Len(log) :
       log[i] = <<"MCP server accepted authenticated connection (token validated)">>
  /\ \E i \in 1..Len(twin.log) :
       twin.log[i] = <<"MCP server rejected connection: invalid token">>

(***************************************************************************)
(* Claims about append mode                                                *)
(***************************************************************************)
\* q is a typing job in append mode
AppendJob(q) ==
  /\ TypeJob(q)
  /\ ~SelectionThrows(q)
  /\ ModeOf(q) = JStr("append")

\* the end of the last line of document d
LastLineEnd(d) == Pos(Len(d) - 1, Len(d[Len(d)]))

\* the step that receives an append request puts the cursor at the end of
\* the last line; in quick mode it inserts the text there at once
C31_Step ==
  \A r \in {Len(reqs) + 1} :
    (Len(reqs') = r /\ AppendJob(reqs'[r])) =>
      LET q == reqs'[r]
          e == q.ed[1]
          d == docs[e][1]
      IN
      /\ q.pc \in {"type_wait", "type_quick"}
      /\ q.pc = "type_wait" =>
           /\ sel'[e] = Selection(LastLineEnd(d), LastLineEnd(d))
           /\ docs' = docs
      /\ q.pc = "type_quick" =>
           docs'[e][1] = [d EXCEPT ![Len(d)] = @ \o TextOf(q)]

\* the document a lone append job leaves behind is the original document
\* followed by the text
C31_Inv ==
  \A r \in Received :
    (Received = {r} /\ TypedOk(r) /\ AppendJob(reqs[r])) =>
      JoinLines(docs[reqs[r].ed[1]][1])
        = JoinLines(OriginalDoc(reqs[r].ed[1])) \o TextOf(reqs[r])

\* C31: in append mode the text is inserted starting at the end of the
\* last line of the document, in quick mode and in animated mode alike,
\* whatever position or selection the request gave
C31_AppendAtEnd == [][C31_Step]_vars /\ []C31_Inv

\* an animated append job that asked for position (0, 0) typed its text
\* behind the last line of the document "x", "yz"
C31_Witness ==
  \E r \in Received :
    /\ TypedOk(r)
    /\ AppendJob(reqs[r])
    /\ ParamQ(reqs[r], "quick") # JBool(TRUE)
    /\ ParamQ(reqs[r], "position") = P(0, 0)
    /\ docs[reqs[r].ed[1]] = Some(<<(<<"x">>), (<<"y", "z", "a", "b">>)>>)

(***************************************************************************)
(* Claims about pacing                                                     *)
(***************************************************************************)
\* parameter f of job q is given: neither absent nor null
Given(q, f) == ParamQ(q, f) # JUndef /\ ParamQ(q, f) # JNull

\* the base delay per character that the request of job q asks for
BaseDelay(q) ==
  IF Given(q, "duration")
  THEN ParamQ(q, "duration").num \div (IF Len(TextOf(q)) < 1 THEN 1 ELSE Len(TextOf(q)))
  ELSE IF Given(q, "speed") THEN ParamQ(q, "speed").num
  ELSE 50

\* C32: the base delay per character is duration / max(1, text.length)
\* whenever a duration is given, also when a speed is given too; otherwise
\* the speed of the request when one is given, 0 included; otherwise the
\* configured default.  Without variation the timer of each character
\* waits for the base delay, a delay below 1 ms being waited as 1 ms
C32_PacingResolution ==
  \A r \in Received :
    (/\ AnimatedJob(reqs[r])
     /\ reqs[r].pc = "type_wait"
     /\ ParamQ(reqs[r], "variation") \in {JUndef, JNum(0)}) =>
      reqs[r].delay = (IF BaseDelay(reqs[r]) < 1 THEN 1 ELSE BaseDelay(reqs[r]))

\* a job that gave duration 6 and speed 4 for two characters waits 3 ms
\* for its second character
C32_Witness ==
  \E r \in Received :
    /\ AnimatedJob(reqs[r])
    /\ ParamQ(reqs[r], "duration") = JNum(6)
    /\ ParamQ(reqs[r], "speed") = JNum(4)
    /\ reqs[r].pc = "type_wait"
    /\ reqs[r].k = 1
    /\ reqs[r].delay = 3
    /\ reqs[r].waited = 3

\* C33: whatever variation is requested, every wait for a character lies
\* between 0 and twice the base delay (a wait below 1 ms being waited as
\* 1 ms): the variation counts as at most 1
C33_JitterBounded ==
  \A r \in Received :
    (AnimatedJob(reqs[r]) /\ reqs[r].pc = "type_wait") =>
      /\ reqs[r].delay >= 0
      /\ reqs[r].delay <= (IF 2 * BaseDelay(reqs[r]) < 1 THEN 1
                           ELSE 2 * BaseDelay(reqs[r]))

(***************************************************************************)
(* Claims about the end of a quick job                                     *)
(***************************************************************************)
\* the step in which a quick job returns comes right after its insertion
\* and leaves cursor, selection and documents as the insertion left them
C34_Step ==
  \A r \in Live :
    (QuickJob(reqs[r]) /\ reqs'[r].pc = "done") =>
      /\ reqs[r].pc = "type_quick"
      /\ reqs'[r].k = 0
      /\ reqs[r].res.ok => Insertions(r, reqs[r].ed[1]) = 1
      /\ surfVars' = surfVars
      /\ insLog' = insLog

\* a quick job never waits for a pacing timer or a typed character
C34_Inv ==
  \A r \in Received :
    QuickJob(reqs[r]) => reqs[r].pc \in {"type_clear", "type_quick", "done"}

\* C34: with quick = true the job ends right after the single insertion:
\* the character loop and the positioning after it are skipped, so an
\* afterCursor given with quick = true does not move the cursor
C34_QuickEndsAfterInsertion == [][C34_Step]_vars /\ []C34_Inv

\* a quick job that gave afterCursor (9, 9) has reported its insertion into
\* a document of three lines and the cursor stands behind the text, in
\* the first line
C34_Witness ==
  \E r \in Received :
    /\ QuickJob(reqs[r])
    /\ TypedOk(r)
    /\ ParamQ(reqs[r], "afterCursor") = P(9, 9)
    /\ LineCount(docs[reqs[r].ed[1]][1]) = 3
    /\ sel[reqs[r].ed[1]] = Selection(Pos(0, 2), Pos(0, 2))

(***************************************************************************)
(* Claims about payloads that are not objects                              *)
(***************************************************************************)
\* C35: a payload that is valid JSON but not an object (null, a number, a
\* string) is answered like a payload that does not parse: with one error
\* that has no id and the text of the malformed-message error, and no
\* handler runs
C35_NonObjectIsMalformed ==
  \A r \in Received :
    (IsParsed(reqs[r].msg) /\ ~IsObj(reqs[r].msg.json) /\ reqs[r].pc = "done") =>
      /\ reqs[r].handler = "none"
      /\ reqs[r].calls = 0
      /\ Len(SentFor(sent, r)) = 1
      /\ SentFor(sent, r)[1].id = None
      /\ SentFor(sent, r)[1].error = Some(<<InvalidJsonText>>)

(***************************************************************************)
(* Claims about an empty text                                              *)
(***************************************************************************)
\* the text of request r is given and is the empty string
EmptyText(q) == Field(Field(q.msg.json, "params"), "text") = JTxt(<<>>)

\* the step that receives a type request with an empty text answers with
\* the missing-text error and changes no cursor, selection or document
C36_Step ==
  \A r \in {Len(reqs) + 1} :
    (Len(reqs') = r /\ reqs'[r].handler = "type" /\ EmptyText(reqs'[r])) =>
      /\ reqs'[r].pc = "done"
      /\ reqs'[r].calls = 0
      /\ Len(SentFor(sent', r)) = 1
      /\ SentFor(sent', r)[1].error = Some(<<"Missing \"text\" to type">>)
      /\ sel' = sel
      /\ docs' = docs
      /\ fs' = fs
      /\ insLog' = insLog

\* no type request with an empty text is ever answered with a result
C36_Inv ==
  \A r \in Received :
    (reqs[r].handler = "type" /\ EmptyText(reqs[r])) =>
      \A i \in 1..Len(SentFor(sent, r)) : SentFor(sent, r)[i].result = None

\* C36: a type request whose text is the empty string is rejected with
\* the missing-text error and changes neither cursor, selection nor
\* document; it is never a successful job of zero characters
C36_EmptyTextRejected == [][C36_Step]_vars /\ []C36_Inv

\* a quick replace request with an empty text and a selection was refused
\* while an editor was active, and the selection is the one from before
C36_Witness ==
  \E r \in Received :
    /\ reqs[r].handler = "type"
    /\ EmptyText(reqs[r])
    /\ ParamQ(reqs[r], "selection") # JUndef
    /\ active = Some("/a")
    /\ sel["/a"] = NoSelection
    /\ Len(SentFor(sent, r)) = 1
    /\ SentFor(sent, r)[1].error = Some(<<"Missing \"text\" to type">>)

(***************************************************************************)
(* The OBS bridge (obs-integration.ts)                                     *)
(***************************************************************************)
\* sockets one run of the bridge creates
MaxObs == 2
\* commands one run of the bridge sends to OBS
MaxCmds == 1
\* requests one run of the bridge receives
MaxCalls == 2
\* the ids the clients put on their requests to the bridge
ObsIds == {1, 2}

\* sendResponse(socket, id, result) of the bridge, for the request numbered r
ObsResponse(r, id, result) ==
  Send(obsOut, [req |-> r, id |-> id, result |-> Some(result), error |-> None])

\* sendError(socket, id, errorMsg) of the bridge, for the request numbered r
ObsError(r, id, text) ==
  Send(obsOut, [req |-> r, id |-> id, result |-> None, error |-> Some(text)])

\* new WebSocket(url) with the four handlers and the 10-second timer of the
\* attempt made by request r
NewObsSocket(r, id, password) ==
  [st |-> "connecting",     \* connecting, open, closing (was open), aborting
                            \* (closed before it opened), failed, closed
   req |-> r,               \* the connectToOBS request whose closures it holds
   id |-> id,               \* that request's id
   password |-> password,   \* whether that request gave a password
   timer |-> TRUE,          \* the attempt's 10-second timer is pending
   hello |-> FALSE,         \* OBS's Hello message was delivered
   foreign |-> FALSE]       \* a reply to a request of another client was delivered

\* ws.close(): a socket that never opened fails with an error and then closes
CloseObs(ss, n) ==
  [ss EXCEPT ![n].st = CASE @ = "connecting" -> "aborting"
                            [] @ = "open" -> "closing"
                            [] OTHER -> @]

\* ws.send(data) throws while the socket is still connecting
SendThrows(n) == n # 0 /\ obsSocks[n].st = "connecting"

\* if (obsWebSocket) { obsWebSocket.close(); obsWebSocket = undefined;
\* obsConnected = false; }
DropCurrent ==
  [socks |-> IF obsWebSocket # 0 THEN CloseObs(obsSocks, obsWebSocket) ELSE obsSocks,
   connected |-> IF obsWebSocket # 0 THEN FALSE ELSE obsConnected]

\* connectToOBS(socket, id, params); badUrl: new WebSocket(url) throws
connectToOBS(id, password, badUrl) ==
  /\ obsCalls < MaxCalls
  /\ obsCalls' = obsCalls + 1
  /\ IF obsConnected /\ obsWebSocket # 0
     THEN /\ obsOut' = ObsResponse(obsCalls + 1, id, "connected")
          /\ UNCHANGED <<obsWebSocket, obsConnected, obsSocks>>
     ELSE IF badUrl
     THEN /\ obsSocks' = DropCurrent.socks
          /\ obsConnected' = DropCurrent.connected
          /\ obsWebSocket' = 0
          /\ obsOut' = ObsError(obsCalls + 1, id, "Failed to connect to OBS")
     ELSE /\ Len(obsSocks) < MaxObs
          /\ obsSocks' = Append(DropCurrent.socks, NewObsSocket(obsCalls + 1, id, password))
          /\ obsConnected' = DropCurrent.connected
          /\ obsWebSocket' = Len(obsSocks) + 1
          /\ UNCHANGED obsOut
  /\ UNCHANGED obsCmds

\* obsWebSocket.onopen of socket n
ObsOpen(n) ==
  /\ obsSocks[n].st = "connecting"
  /\ obsSocks' = [obsSocks EXCEPT ![n].st = "open"]
  /\ IF obsSocks[n].password /\ SendThrows(obsWebSocket)
     THEN UNCHANGED <<obsConnected, obsOut>>
     ELSE /\ obsConnected' = TRUE
          /\ obsOut' = ObsResponse(obsSocks[n].req, obsSocks[n].id, "connected")
  /\ UNCHANGED <<obsWebSocket, obsCmds, obsCalls>>

\* obsWebSocket.onclose of socket n
ObsClose(n) ==
  /\ obsSocks[n].st \in {"open", "closing", "failed"}
  /\ obsSocks' = [obsSocks EXCEPT ![n].st = "closed"]
  /\ obsConnected' = FALSE
  /\ obsWebSocket' = 0
  /\ UNCHANGED <<obsCmds, obsCalls, obsOut>>

\* obsWebSocket.onerror of socket n; the socket closes after it
ObsFail(n) ==
  /\ obsSocks[n].st \in {"connecting", "open", "aborting"}
  /\ obsSocks' = [obsSocks EXCEPT ![n].st = "failed"]
  /\ obsConnected' = FALSE
  /\ obsOut' = ObsError(obsSocks[n].req, obsSocks[n].id, "OBS WebSocket connection error")
  /\ UNCHANGED <<obsWebSocket, obsCmds, obsCalls>>

\* obsWebSocket.onmessage of socket n for OBS's Hello (op 2), which asks for
\* authentication or does not
ObsHello(n, authentication) ==
  /\ obsSocks[n].st \in {"open", "closing"}
  /\ ~obsSocks[n].hello
  /\ IF authentication /\ ~obsSocks[n].password
     THEN /\ obsOut' = ObsError(obsSocks[n].req, obsSocks[n].id,
                               "OBS WebSocket requires authentication but no password provided")
          /\ obsSocks' = [DropCurrent.socks EXCEPT ![n].hello = TRUE]
          /\ obsConnected' = FALSE
          /\ obsWebSocket' = 0
     ELSE /\ obsSocks' = [obsSocks EXCEPT ![n].hello = TRUE]
          /\ UNCHANGED <<obsWebSocket, obsConnected, obsOut>>
  /\ UNCHANGED <<obsCmds, obsCalls>>

\* the 10-second timer of the attempt that created socket n; timers of equal
\* delay fire in the order they were set
ObsConnectTimeout(n) ==
  /\ obsSocks[n].timer
  /\ \A m \in 1..(n - 1) : ~obsSocks[m].timer
  /\ IF ~obsConnected /\ obsWebSocket # 0
     THEN /\ obsSocks' = [DropCurrent.socks EXCEPT ![n].timer = FALSE]
          /\ obsWebSocket' = 0
          /\ obsOut' = ObsError(obsSocks[n].req, obsSocks[n].id,
                               "Connection to OBS WebSocket timed out")
     ELSE /\ obsSocks' = [obsSocks EXCEPT ![n].timer = FALSE]
          /\ UNCHANGED <<obsWebSocket, obsOut>>
  /\ UNCHANGED <<obsConnected, obsCmds, obsCalls>>

\* disconnectFromOBS(socket, id)
disconnectFromOBS(id) ==
  /\ obsCalls < MaxCalls
  /\ obsCalls' = obsCalls + 1
  /\ obsSocks' = DropCurrent.socks
  /\ obsConnected' = DropCurrent.connected
  /\ obsWebSocket' = 0
  /\ obsOut' = ObsResponse(obsCalls + 1, id,
                           IF obsWebSocket # 0 THEN "disconnected" ELSE "Not connected")
  /\ UNCHANGED obsCmds

\* the promise, the listener and the 5-second timer of the command sent by
\* request r on socket n
NewObsCommand(r, id, n, awaited) ==
  [req |-> r,               \* the sendOBSCommand request
   id |-> id,               \* that request's id
   sock |-> n,              \* the socket the listener was added to
   awaited |-> awaited,     \* the handler reached await responsePromise
   listening |-> TRUE,      \* messageHandler is still a listener of the socket
   timer |-> TRUE,          \* the 5-second timer is pending
   settled |-> FALSE,       \* responsePromise was resolved or rejected
   replied |-> FALSE,       \* OBS's reply carrying requestId was delivered
   ok |-> TRUE,             \* that reply's requestStatus.result was not false
   timedOut |-> FALSE]      \* the 5-second timer fired

\* sendOBSCommand(socket, id, params) up to await responsePromise
sendOBSCommand(id) ==
  /\ obsCalls < MaxCalls
  /\ obsCalls' = obsCalls + 1
  /\ IF ~obsConnected \/ obsWebSocket = 0
     THEN /\ obsOut' = ObsError(obsCalls + 1, id, "Not connected to OBS WebSocket")
          /\ UNCHANGED obsCmds
     ELSE /\ Len(obsCmds) < MaxCmds
          /\ obsCmds' = Append(obsCmds, NewObsCommand(obsCalls + 1, id, obsWebSocket,
                                                      ~SendThrows(obsWebSocket)))
          /\ obsOut' = IF SendThrows(obsWebSocket)
                       THEN ObsError(obsCalls + 1, id, "OBS command failed: not open")
                       ELSE obsOut
  /\ UNCHANGED <<obsWebSocket, obsConnected, obsSocks>>

\* a promise that takes a second resolve or reject
ObsSettleAgain(c, outcome) ==
  IF ~obsCmds[c].awaited THEN obsOut
  ELSE IF outcome = "responseData"
       THEN ObsResponse(obsCmds[c].req, obsCmds[c].id, outcome)
       ELSE ObsError(obsCmds[c].req, obsCmds[c].id, outcome)

\* the continuation of await responsePromise once command c's promise settles
ObsSettle(c, outcome) ==
  IF obsCmds[c].settled \/ ~obsCmds[c].awaited THEN obsOut
  ELSE IF outcome = "responseData"
       THEN ObsResponse(obsCmds[c].req, obsCmds[c].id, outcome)
       ELSE ObsError(obsCmds[c].req, obsCmds[c].id, outcome)

\* messageHandler of command c for OBS's reply (op 7) carrying its requestId;
\* ok: requestStatus.result is not false
ObsReply(c, ok) ==
  /\ obsSocks[obsCmds[c].sock].st \in {"open", "closing"}
  /\ ~obsCmds[c].replied
  /\ obsCmds[c].listening
  /\ obsCmds' = [obsCmds EXCEPT ![c].replied = TRUE,
                                ![c].ok = ok,
                                ![c].listening = obsWebSocket # obsCmds[c].sock,
                                ![c].timer = FALSE,
                                ![c].settled = TRUE]
  /\ obsOut' = ObsSettle(c, IF ok THEN "responseData" ELSE "OBS command failed: Command failed")
  /\ UNCHANGED <<obsWebSocket, obsConnected, obsSocks, obsCalls>>

\* a reply (op 7) on socket n whose requestId no command of this bridge has:
\* no messageHandler matches it, onmessage skips it
ObsForeignReply(n) ==
  /\ obsSocks[n].st \in {"open", "closing"}
  /\ ~obsSocks[n].foreign
  /\ obsSocks' = [obsSocks EXCEPT ![n].foreign = TRUE]
  /\ UNCHANGED <<obsWebSocket, obsConnected, obsCmds, obsCalls, obsOut>>

\* the 5-second timer of command c
ObsCommandTimeout(c) ==
  /\ obsCmds[c].timer
  /\ \A d \in 1..(c - 1) : ~obsCmds[d].timer
  /\ obsCmds' = [obsCmds EXCEPT ![c].timer = FALSE,
                                ![c].settled = TRUE,
                                ![c].timedOut = TRUE]
  /\ obsOut' = ObsSettle(c, "OBS command failed: OBS command timed out")
  /\ UNCHANGED <<obsWebSocket, obsConnected, obsSocks, obsCalls>>

ObsRest == <<regVars, msgVars, surfVars, insLog, sendFails, netVars, logVars>>

\* a running server with its clients connected and the bridge just loaded
InitObs == InitOn({}, <<"x", "y">>, TRUE)

NextObs ==
  \/ \E id \in ObsIds, password \in BOOLEAN, badUrl \in BOOLEAN :
       connectToOBS(id, password, badUrl) /\ UNCHANGED ObsRest
  \/ \E id \in ObsIds : disconnectFromOBS(id) /\ UNCHANGED ObsRest
  \/ \E id \in ObsIds : sendOBSCommand(id) /\ UNCHANGED ObsRest
  \/ \E n \in DOMAIN obsSocks : ObsOpen(n) /\ UNCHANGED ObsRest
  \/ \E n \in DOMAIN obsSocks : ObsFail(n) /\ UNCHANGED ObsRest
  \/ \E n \in DOMAIN obsSocks : ObsClose(n) /\ UNCHANGED ObsRest
  \/ \E n \in DOMAIN obsSocks, authentication \in BOOLEAN :
       ObsHello(n, authentication) /\ UNCHANGED ObsRest
  \/ \E n \in DOMAIN obsSocks : ObsForeignReply(n) /\ UNCHANGED ObsRest
  \/ \E n \in DOMAIN obsSocks : ObsConnectTimeout(n) /\ UNCHANGED ObsRest
  \/ \E c \in DOMAIN obsCmds, ok \in BOOLEAN : ObsReply(c, ok) /\ UNCHANGED ObsRest
  \/ \E c \in DOMAIN obsCmds : ObsCommandTimeout(c) /\ UNCHANGED ObsRest

SpecObs == InitObs /\ [][NextObs]_vars

(***************************************************************************)
(* C37: one response per OBS command                                       *)
(***************************************************************************)
\* the messages the bridge sent for request r
ObsOutOf(r) == SelectSeq(obsOut, LAMBDA m : m.req = r)

\* OBS's reply to command c arrived before the 5-second timer fired
InTime(c) == obsCmds[c].replied /\ ~obsCmds[c].timedOut

\* the commands whose request was sent to OBS
ObsSentCmds == {c \in DOMAIN obsCmds : obsCmds[c].awaited}

C37_Inv ==
  \A c \in DOMAIN obsCmds :
    LET o == ObsOutOf(obsCmds[c].req) IN
      IF obsCmds[c].awaited
      THEN /\ Len(o) = (IF obsCmds[c].settled THEN 1 ELSE 0)
           /\ ~obsCmds[c].settled => obsCmds[c].timer
           /\ obsCmds[c].settled =>
                /\ o[1].id = obsCmds[c].id
                /\ o[1] = [req |-> obsCmds[c].req, id |-> obsCmds[c].id,
                           result |-> IF InTime(c) /\ obsCmds[c].ok
                                      THEN Some("responseData") ELSE None,
                           error |-> IF InTime(c) /\ obsCmds[c].ok THEN None
                                     ELSE IF InTime(c)
                                     THEN Some("OBS command failed: Command failed")
                                     ELSE Some("OBS command failed: OBS command timed out")]
      ELSE o = <<[req |-> obsCmds[c].req, id |-> obsCmds[c].id, result |-> None,
                  error |-> Some("OBS command failed: not open")]>>

\* a reply delivered after the timer fired, or a reply to another request id
LateOrForeignReply ==
  \/ \E c \in DOMAIN obsCmds :
       /\ c \in DOMAIN obsCmds'
       /\ obsCmds[c].timedOut /\ ~obsCmds[c].replied /\ obsCmds'[c].replied
  \/ \E n \in DOMAIN obsSocks :
       /\ n \in DOMAIN obsSocks'
       /\ ~obsSocks[n].foreign /\ obsSocks'[n].foreign

C37_Step == LateOrForeignReply => obsOut' = obsOut

C38_ConnectAnsweredAtMostOnce ==
  \A n \in DOMAIN obsSocks : Len(ObsOutOf(obsSocks[n].req)) <= 1

(***************************************************************************)
(* C39: the 10-second timer and later attempts                             *)
(***************************************************************************)
\* the 10-second timer of the attempt that created socket n fires in this step
TimerFires(n) == obsSocks[n].timer /\ ~obsSocks'[n].timer

\* socket n was closed or has failed
ObsGone(n) == obsSocks[n].st \in {"aborting", "closing", "failed", "closed"}

C39_Step ==
  \A n \in DOMAIN obsSocks :
    TimerFires(n) /\ ObsGone(n) =>
      \A m \in DOMAIN obsSocks :
        m > n => /\ obsSocks'[m].st = obsSocks[m].st
                 /\ obsWebSocket = m => obsOut' = obsOut /\ obsWebSocket' = m

\* C39: when the 10-second timer of an attempt whose socket was closed or
\* has failed fires, it closes the socket of no later attempt and, while a
\* later attempt's socket is the bridge's socket, reports no timeout and
\* leaves that socket in place
C39_TimerScopedToAttempt == [][C39_Step]_vars

====
